---- MODULE Spec2Model ----
(***************************************************************************)
(* Model lifecycle managers of the Ollama-compatible gateway.              *)
(*                                                                         *)
(*   Spec   the LMDeploy ModelManager (lmdeploy-server/app/model_manager)  *)
(*   SpecV  the vLLM ModelManager     (vllm-server/model_manager)          *)
(*                                                                         *)
(* Both managers run on one asyncio event loop: a coroutine runs without   *)
(* interruption from one suspension point to the next, so every action     *)
(* below is the code between two suspension points.  The LMDeploy manager  *)
(* suspends while the pipeline is constructed on an executor thread; the   *)
(* vLLM manager constructs its engine by a plain blocking call, during     *)
(* which the event loop itself is occupied.                                *)
(***************************************************************************)
EXTENDS Integers, Sequences, FiniteSets, TLC

(* ------------------------------ bounds --------------------------------- *)
NumCallers == 2
MaxTime == 1
MaxIdle == 1

Callers == 1..NumCallers
Times == 0..MaxTime
IdleTimes == 0..MaxIdle

(* --------------------------- identifiers ------------------------------- *)
Mistral == "mistralai/Mistral-7B-Instruct-v0.1"
Custom == "custom-model"
Names == {Mistral, Custom}

None == 0
NoCaller == None
Handles == 1..NumCallers

(* ------------------------ configuration data --------------------------- *)
\* LMDeployServerConfig field defaults (pydantic Field(default=...))
DefaultMaxModelLen == 2048
DefaultMaxNumSeqs == 256
DefaultTensorParallel == 1
\* gpu_memory_utilization default 0.9, in percent
DefaultGpuMemUtil == 90
\* literal fallback of cache_max_entry_count (0.8), in percent
CacheMaxEntryDefault == 80

\* the global `config` object: the defaults, or values taken from the
\* environment (env_prefix VLLM_)
DefaultConfig ==
    [max_model_len |-> DefaultMaxModelLen, max_num_seqs |-> DefaultMaxNumSeqs,
     tensor_parallel_size |-> DefaultTensorParallel,
     gpu_memory_utilization |-> DefaultGpuMemUtil]
ConfigChoices ==
    { DefaultConfig,
      [max_model_len |-> 4096, max_num_seqs |-> 64,
       tensor_parallel_size |-> 2,
       gpu_memory_utilization |-> 50] }

SUPPORTED_MODELS ==
    [n \in {"microsoft/DialoGPT-medium",
            "TheBloke/deepseek-coder-1.3b-instruct-AWQ",
            "meta-llama/Llama-2-7b-chat-hf",
            "mistralai/Mistral-7B-Instruct-v0.1",
            "codellama/CodeLlama-7b-Python-hf"} |->
        CASE n = "microsoft/DialoGPT-medium" ->
               [max_model_len |-> 1024, tensor_parallel_size |-> 1,
                use_case |-> "chat",
                description |-> <<"Microsoft DialoGPT medium model for conversation">>]
          [] n = "TheBloke/deepseek-coder-1.3b-instruct-AWQ" ->
               [max_model_len |-> 2048, tensor_parallel_size |-> 1,
                use_case |-> "code",
                description |-> <<"DeepSeek Coder 1.3B model for code generation">>]
          [] n = "meta-llama/Llama-2-7b-chat-hf" ->
               [max_model_len |-> 4096, tensor_parallel_size |-> 1,
                use_case |-> "chat",
                description |-> <<"Llama 2 7B chat model">>]
          [] n = "mistralai/Mistral-7B-Instruct-v0.1" ->
               [max_model_len |-> 8192, tensor_parallel_size |-> 1,
                use_case |-> "instruction",
                description |-> <<"Mistral 7B instruction-following model">>]
          [] OTHER ->
               [max_model_len |-> 4096, tensor_parallel_size |-> 1,
                use_case |-> "code",
                description |-> <<"Code Llama 7B Python specialist">>]]

\* ModelConfig.get_model_config: the registry entry, else the generic entry
get_model_config(model_name) ==
    IF model_name \in DOMAIN SUPPORTED_MODELS
    THEN SUPPORTED_MODELS[model_name]
    ELSE [max_model_len |-> 2048, tensor_parallel_size |-> 1,
          use_case |-> "general",
          description |-> <<"Custom model: ", model_name>>]

\* dict.get(key, default)
Get(d, k, default) == IF k \in DOMAIN d THEN d[k] ELSE default

\* the keyword arguments a load_model call may carry
EmptyKwargs == [k \in {} |-> 0]
\* variant: the registry value wins over the per-call override
EngineConfigRegistryFirst(model_name, kwargs, cfg) ==
    LET model_config == get_model_config(model_name) IN
    [session_len |-> Get(model_config, "max_model_len",
                         Get(kwargs, "max_model_len", cfg.max_model_len)),
     max_batch_size |-> Get(kwargs, "max_num_seqs", cfg.max_num_seqs),
     tp |-> Get(model_config, "tensor_parallel_size",
                Get(kwargs, "tensor_parallel_size", cfg.tensor_parallel_size)),
     cache_max_entry_count |-> Get(kwargs, "cache_max_entry_count",
                                   CacheMaxEntryDefault)]

\* TurbomindEngineConfig(...) as built by the LMDeploy load_model
EngineConfig(model_name, kwargs, cfg) ==
    LET model_config == get_model_config(model_name) IN
    [session_len |-> Get(kwargs, "max_model_len",
                         Get(model_config, "max_model_len", cfg.max_model_len)),
     max_batch_size |-> Get(kwargs, "max_num_seqs", cfg.max_num_seqs),
     tp |-> Get(kwargs, "tensor_parallel_size",
                Get(model_config, "tensor_parallel_size", cfg.tensor_parallel_size)),
     cache_max_entry_count |-> Get(kwargs, "cache_max_entry_count",
                                   CacheMaxEntryDefault)]

(* --------------------------- import guards ------------------------------ *)
\* Each of server.py and model_manager.py sets a flag of its own from its own
\* try: import ... except ImportError.

\* LMDeploy: server.py imports lmdeploy, pipeline and GenerationConfig,
\* model_manager.py these and TurbomindEngineConfig: where the manager's
\* import works the server's does
ImportGuards ==
    {g \in [server : BOOLEAN, manager : BOOLEAN] : g.manager => g.server}

\* vLLM: server.py imports SamplingParams; model_manager.py imports LLM,
\* SamplingParams, AsyncLLMEngine and, last, AsyncEngineArgs, and names
\* AsyncLLMEngine in the annotation of load_model, which is evaluated when
\* the class is defined: unless SamplingParams and AsyncLLMEngine were
\* imported the module raises NameError and there is no server
VImportGuards ==
    {g \in [server : BOOLEAN, manager : BOOLEAN] : g.server}

(* ------------------------------ state ---------------------------------- *)
VARIABLES
    available,      \* LMDEPLOY_AVAILABLE / VLLM_AVAILABLE of model_manager.py
    server_available, \* LMDEPLOY_AVAILABLE / VLLM_AVAILABLE of server.py
    config,         \* the global configuration instance
    models,         \* _models: identifier -> handle
    model_configs,  \* _model_configs: identifier -> registry config
    last_used,      \* _last_used: identifier -> timestamp
    loading_locks,  \* _loading_locks: identifier -> asyncio.Lock
    engines,        \* handle -> the engine configuration it was built with
    closed,         \* handles the manager has relinquished
    now,            \* time.time()
    pc,             \* position of each load_model call
    call,           \* arguments of each load_model call
    result,         \* return value of each finished load_model call
    hist,           \* per call: what was observed at its start and end
    loopHolder,     \* the call whose blocking step occupies the event loop
    lastOp,         \* the last unload/cleanup operation and what it returned
    resolved,       \* the last engine configuration resolved on its own
    gw,             \* per caller: the HTTP request it made and the response
    stream,         \* the thread-and-queue bridge of the streaming generation
    admin,          \* the last response of the unload endpoint
    chat,           \* the last chat request's messages and their prompt
    phase           \* the server's life: "serving", "draining" from the
                    \* start of the shutdown, "stopped" once the shutdown
                    \* handler has run; and, as a history, the requests
                    \* that were in flight when the shutdown started

vars == <<available, config, models, model_configs, last_used, loading_locks,
          engines, closed, now, pc, call, result, hist, loopHolder, lastOp,
          resolved, gw, stream, admin, chat, phase, server_available>>

\* the state of the HTTP layer; the manager's own operations leave it alone
gvars == <<gw, stream, admin, chat, phase, server_available>>
\* the state of the manager
mvars == <<available, config, models, model_configs, last_used, loading_locks,
           engines, closed, now, pc, call, result, hist, loopHolder, lastOp,
           resolved>>

\* no request made yet
NoRequest == [kind |-> "none", streaming |-> FALSE,
              stage |-> "idle", status |-> None, full_response |-> <<>>,
              out |-> <<>>]
\* no streaming generation started yet
NoStream == [owner |-> NoCaller, thread |-> "none", queue |-> <<>>,
             produced |-> 0, raised |-> FALSE, made |-> <<>>,
             escaped |-> FALSE, put |-> <<>>]
NoAdmin == [endpoint |-> "none", name |-> "", status |-> None]
NoChat == [messages |-> <<>>, prompt |-> <<>>]
\* the server takes requests; no shutdown has begun
Serving == [life |-> "serving", inflight |-> {}]
GatewayIdle ==
    /\ gw = [p \in Callers |-> NoRequest]
    /\ stream = NoStream
    /\ admin = NoAdmin
    /\ chat = NoChat
    /\ phase = Serving

(* --------------------------- dictionaries ------------------------------ *)
\* variant: an assignment to a key already present is lost
PutKeepsOld(d, k, v) == [j \in DOMAIN d \cup {k} |-> IF j \in DOMAIN d THEN d[j] ELSE v]

\* d[k] = v
Put(d, k, v) == [j \in DOMAIN d \cup {k} |-> IF j = k THEN v ELSE d[j]]
\* del d[k]
Del(d, k) == [j \in DOMAIN d \ {k} |-> d[j]]
EmptyDict == [k \in {} |-> 0]

(* ---------------------------- asyncio.Lock ----------------------------- *)
\* variant: one lock shared by all identifiers
LockKeyShared(model_name) == "*"

\* the key under which the lock of an identifier is kept: one lock per
\* identifier (self._loading_locks[model_name])
LockKey(model_name) == model_name
\* asyncio.Lock(): _locked False, no waiters
NewLock == [locked |-> FALSE, waiters |-> <<>>]
\* variant: the lock never makes anybody wait
CanAcquireAlways(lock) == TRUE

\* Lock.acquire fast path: taken at once iff unlocked and nobody is queued
CanAcquireNow(lock) == ~lock.locked /\ lock.waiters = <<>>
\* variant: the lock stays held
ReleaseForgotten(locks, x) == locks

\* Lock.release: unlock; the first waiter (if any) has been woken and takes
\* the lock when it next runs
Release(locks, x) == [locks EXCEPT ![LockKey(x)].locked = FALSE]
\* a woken waiter is the head of the queue of an unlocked lock
IsWoken(lock, p) ==
    ~lock.locked /\ lock.waiters # <<>> /\ Head(lock.waiters) = p

(* ------------------------------ helpers -------------------------------- *)
InFlight(p) == pc[p] \in {"waiting", "constructing"}
Done(p) == pc[p] = "done"
Started(p) == pc[p] # "idle"

\* the handle a new construction yields: one never handed out before
FreshHandle == CHOOSE h \in Handles : h \notin DOMAIN engines

\* the calls for x that are between their start and their return
Affected(x) == {q \in Callers : InFlight(q) /\ call[q].name = x}

\* history bookkeeping: a construction of x failed, or x left the cache,
\* while the calls in S were in progress
Disturb(h, S) ==
    [q \in Callers |-> IF q \in S THEN [h[q] EXCEPT !.disturbed = TRUE] ELSE h[q]]

NoOp == [op |-> "none", name |-> "", d |-> 0, ret |-> FALSE, raised |-> FALSE,
         error |-> FALSE, removed |-> {}]

\* variant: no second look after the lock is taken
DoubleCheckSkipped(x) == FALSE

\* second look at the cache, made once the per-identifier lock is held
DoubleCheck(x) == x \in DOMAIN models

\* the cache-hit condition at the top of load_model
IsCached(x) == x \in DOMAIN models

NoCall == [name |-> "", kwargs |-> EmptyKwargs]
\* the arguments of a call; the keyword arguments go with the frame when the
\* call has returned
Frame(x, kw, returned) ==
    [name |-> x, kwargs |-> IF returned THEN EmptyKwargs ELSE kw]
NoHist == [cached |-> FALSE, built |-> FALSE, disturbed |-> FALSE, peers |-> {},
           during |-> FALSE, overrides |-> EmptyKwargs]
NoResolved == [name |-> "", kwargs |-> EmptyKwargs, engine |-> EmptyDict]

\* what a call records when it starts
\*   cached    x was in the cache
\*   peers     the calls for x in progress at that moment
\*   during    the construction of another identifier was running
\* and, later, built (the call ran the construction step) and disturbed
StartHist(x) ==
    [cached |-> IsCached(x), built |-> FALSE, disturbed |-> FALSE,
     peers |-> Affected(x),
     during |-> \E r \in Callers : pc[r] = "constructing" /\ call[r].name # x,
     overrides |-> EmptyKwargs]

TypeOK ==
    /\ available \in BOOLEAN
    /\ server_available \in BOOLEAN
    /\ config \in ConfigChoices
    /\ DOMAIN models \subseteq Names
    /\ \A x \in DOMAIN models : models[x] \in Handles
    /\ DOMAIN model_configs \subseteq Names
    /\ DOMAIN last_used \subseteq Names
    /\ \A x \in DOMAIN last_used : last_used[x] \in Times
    /\ DOMAIN loading_locks \subseteq Names
    /\ DOMAIN engines \subseteq Handles
    /\ closed \subseteq Handles
    /\ now \in Times
    /\ pc \in [Callers -> {"idle", "waiting", "constructing", "done"}]
    /\ result \in [Callers -> Handles \cup {None}]
    /\ \A p \in Callers : hist[p].peers \subseteq Callers
    /\ loopHolder \in Callers \cup {NoCaller}
    /\ \A p \in Callers :
           /\ gw[p].kind \in {"none", "load", "generate", "chat"}
           /\ gw[p].stage \in {"idle", "acquiring", "generating", "streaming",
                               "closing", "abandoned", "responded"}
           /\ gw[p].streaming \in BOOLEAN
    /\ stream.owner \in Callers \cup {NoCaller}
    /\ stream.thread \in {"none", "running", "ended"}
    /\ stream.produced \in Nat
    /\ admin.endpoint \in {"none", "unload"}
    /\ chat.messages \in Seq([role : STRING, content : STRING])
    /\ chat.prompt \in Seq(STRING)
    /\ phase.life \in {"serving", "draining", "stopped"}
    /\ phase.inflight \subseteq Callers

(* ============================ LMDeploy manager ========================= *)

Init ==
    /\ \E g \in ImportGuards :
           server_available = g.server /\ available = g.manager
    /\ config = DefaultConfig
    /\ models = EmptyDict
    /\ model_configs = EmptyDict
    /\ last_used = EmptyDict
    /\ loading_locks = EmptyDict
    /\ engines = EmptyDict
    /\ closed = {}
    /\ now = 0
    /\ pc = [p \in Callers |-> "idle"]
    /\ call = [p \in Callers |-> NoCall]
    /\ result = [p \in Callers |-> None]
    /\ hist = [p \in Callers |-> NoHist]
    /\ loopHolder = NoCaller
    /\ lastOp = NoOp
    /\ resolved = NoResolved
    /\ GatewayIdle

\* variant: a call that waited through a failed construction gives up with
\* that failure instead of constructing
LockedSectionSharesFailure(p, x, kw, locks, h) ==
    IF DoubleCheck(x) \/ h[p].disturbed
    THEN /\ last_used' = IF DoubleCheck(x) THEN Put(last_used, x, now) ELSE last_used
         /\ result' = [result EXCEPT ![p] = IF DoubleCheck(x) THEN models[x] ELSE None]
         /\ pc' = [pc EXCEPT ![p] = "done"]
         /\ loading_locks' = Release(locks, x)
         /\ hist' = h
    ELSE /\ pc' = [pc EXCEPT ![p] = "constructing"]
         /\ loading_locks' = locks
         /\ hist' = [h EXCEPT ![p].built = TRUE]
         /\ UNCHANGED <<result, last_used>>

\* load_model from the point where the per-identifier lock has just been
\* taken (locks: the lock map with x's lock held by p; h: the history with
\* p's start recorded) up to the next suspension point or the return
LockedSection(p, x, kw, locks, h) ==
    IF DoubleCheck(x)
    THEN \* loaded meanwhile by a racing call
         /\ last_used' = Put(last_used, x, now)
         /\ result' = [result EXCEPT ![p] = models[x]]
         /\ pc' = [pc EXCEPT ![p] = "done"]
         /\ loading_locks' = Release(locks, x)
         /\ hist' = h
    ELSE \* the engine configuration is built (a plain record of the resolved
         \* values), then: await loop.run_in_executor(None, safe_pipeline)
         /\ pc' = [pc EXCEPT ![p] = "constructing"]
         /\ loading_locks' = locks
         /\ hist' = [h EXCEPT ![p].built = TRUE]
         /\ UNCHANGED <<result, last_used>>

\* load_model(model_name, **kwargs): from the call to the first suspension,
\* as it acts on the manager
DoLoadCall(p, x, kw) ==
    /\ pc[p] = "idle"
    /\ lastOp' = NoOp
    /\ UNCHANGED <<available, config, models, model_configs, engines, closed,
                   now, loopHolder, resolved>>
    /\ LET h == [hist EXCEPT ![p] = [StartHist(x) EXCEPT !.overrides = kw]]
           locks == IF LockKey(x) \in DOMAIN loading_locks THEN loading_locks
                    ELSE Put(loading_locks, LockKey(x), NewLock)
       IN
       IF ~available
       THEN /\ result' = [result EXCEPT ![p] = None]
            /\ pc' = [pc EXCEPT ![p] = "done"]
            /\ hist' = h
            /\ UNCHANGED <<last_used, loading_locks>>
       ELSE IF IsCached(x)
       THEN /\ last_used' = Put(last_used, x, now)
            /\ result' = [result EXCEPT ![p] = models[x]]
            /\ pc' = [pc EXCEPT ![p] = "done"]
            /\ hist' = h
            /\ UNCHANGED loading_locks
       ELSE IF CanAcquireNow(locks[LockKey(x)])
       THEN LockedSection(p, x, kw, [locks EXCEPT ![LockKey(x)].locked = TRUE], h)
       ELSE \* suspended in Lock.acquire
            /\ pc' = [pc EXCEPT ![p] = "waiting"]
            /\ loading_locks' = [locks EXCEPT ![LockKey(x)].waiters = Append(@, p)]
            /\ hist' = h
            /\ UNCHANGED <<result, last_used>>
    /\ call' = [call EXCEPT ![p] = Frame(x, kw, pc'[p] = "done")]

\* load_model called directly: to the first suspension
LoadCall(p, x, kw) == DoLoadCall(p, x, kw) /\ UNCHANGED gvars

\* a waiter woken by Lock.release takes the lock and continues
DoLoadResume(p) ==
    /\ pc[p] = "waiting"
    /\ LET x == call[p].name IN
       /\ IsWoken(loading_locks[LockKey(x)], p)
       /\ LockedSection(p, x, call[p].kwargs,
                        [loading_locks EXCEPT ![LockKey(x)].waiters = Tail(@),
                                              ![LockKey(x)].locked = TRUE],
                        hist)
    /\ call' = [call EXCEPT ![p] = Frame(@.name, @.kwargs, pc'[p] = "done")]
    /\ lastOp' = NoOp
    /\ UNCHANGED <<available, config, models, model_configs, engines, closed,
                   now, loopHolder, resolved>>

\* load_model called directly: a woken waiter continues
LoadResume(p) == DoLoadResume(p) /\ UNCHANGED gvars

\* pipe = await loop.run_in_executor(None, safe_pipeline)
PipeOf(outcome) == IF outcome = "ok" THEN FreshHandle ELSE None

\* variant: the None result of the pipeline call is not checked
SucceededUnlessRaised(outcome) == outcome # "raise"

\* the load goes on to cache the pipeline unless the call raised (except
\* Exception: return None) or gave None (if pipe is None: return None)
Succeeded(outcome) == outcome = "ok"

\* variant: the configuration recorded for an entry carries the overrides
RecordedConfigEffective(x, kwargs) ==
    [k \in DOMAIN get_model_config(x) |->
        Get(kwargs, k, get_model_config(x)[k])]

\* self._model_configs[model_name] = model_config: the registry's entry as
\* get_model_config returned it, whatever the keyword arguments were
RecordedConfig(x, kwargs) == get_model_config(x)

\* the executor finished safe_pipeline and the coroutine continues:
\* outcome "ok" (a pipeline), "none" (pipeline returned None), "raise"
DoLoadFinish(p, outcome) ==
    /\ pc[p] = "constructing"
    /\ LET x == call[p].name IN
       /\ IF Succeeded(outcome)
          THEN LET pipe == PipeOf(outcome) IN
               /\ engines' = IF pipe = None THEN engines
                              ELSE Put(engines, pipe,
                                       EngineConfig(x, call[p].kwargs, config))
               /\ models' = Put(models, x, pipe)
               /\ model_configs' = Put(model_configs, x,
                                        RecordedConfig(x, call[p].kwargs))
               /\ last_used' = Put(last_used, x, now)
               /\ result' = [result EXCEPT ![p] = pipe]
               /\ hist' = hist
          ELSE /\ result' = [result EXCEPT ![p] = None]
               /\ hist' = Disturb(hist, Affected(x))
               /\ UNCHANGED <<engines, models, model_configs, last_used>>
       /\ loading_locks' = Release(loading_locks, x)
    /\ pc' = [pc EXCEPT ![p] = "done"]
    /\ call' = [call EXCEPT ![p] = Frame(@.name, @.kwargs, TRUE)]
    /\ lastOp' = NoOp
    /\ UNCHANGED <<available, config, closed, now, loopHolder, resolved>>

\* load_model called directly: the construction has finished
LoadFinish(p, outcome) == DoLoadFinish(p, outcome) /\ UNCHANGED gvars

\* the state unload_model works on
ManagerState == [m |-> models, c |-> model_configs, l |-> last_used,
                 closed |-> closed, ret |-> FALSE, error |-> FALSE]

\* variant: the error of close is not caught
CloseEscapesUncaught(raises) == raises

\* try: pipe.close() / except Exception: log -- does the error of close
\* leave unload_model?  Never: every Exception is caught.
CloseEscapes(raises) == FALSE

\* variant: an identifier that is not cached is reported as unloaded
NotLoadedReportsTrue(st) == [st EXCEPT !.ret = TRUE]

\* unload_model of an identifier that is not in _models: return False
NotLoaded(st) == [st EXCEPT !.ret = FALSE]

\* variant: reports success but leaves the cache entry in place
UnloadModelKeepsEntry(st, x, raises) ==
    IF x \in DOMAIN st.m
    THEN [st EXCEPT !.c = Del(st.c, x), !.l = Del(st.l, x), !.ret = TRUE]
    ELSE [st EXCEPT !.ret = FALSE]

\* unload_model(model_name) applied to a manager state; raises: pipe.close()
\* raises; error: an exception left the function
UnloadModel(st, x, raises) ==
    IF x \in DOMAIN st.m
    THEN IF CloseEscapes(raises) THEN [st EXCEPT !.error = TRUE]
         ELSE
         LET st1 == [st EXCEPT !.m = Del(st.m, x),
                               !.closed = st.closed \cup {st.m[x]}] IN
         IF x \notin DOMAIN st1.c THEN [st1 EXCEPT !.error = TRUE]
         ELSE LET st2 == [st1 EXCEPT !.c = Del(st1.c, x)] IN
              IF x \notin DOMAIN st2.l THEN [st2 EXCEPT !.error = TRUE]
              ELSE [st2 EXCEPT !.l = Del(st2.l, x), !.ret = TRUE]
    ELSE NotLoaded(st)

\* variant: the last-used time of an unloaded identifier is kept
DoUnloadKeepsTime(x, raises) ==
    /\ LET st == UnloadModel(ManagerState, x, raises) IN
       /\ models' = st.m
       /\ model_configs' = st.c
       /\ UNCHANGED last_used
       /\ closed' = st.closed
       /\ lastOp' = [op |-> "unload", name |-> x, d |-> 0, ret |-> st.ret,
                     raised |-> raises /\ x \in DOMAIN models,
                     error |-> st.error,
                     removed |-> DOMAIN models \ DOMAIN st.m]
       /\ hist' = Disturb(hist, UNION {Affected(y) : y \in DOMAIN models \ DOMAIN st.m})
    /\ UNCHANGED <<available, config, loading_locks, engines, now, pc, call,
                   result, loopHolder, resolved>>

\* unload_model(model_name) as it acts on the manager; raises: pipe.close()
\* raises
DoUnload(x, raises) ==
    /\ LET st == UnloadModel(ManagerState, x, raises) IN
       /\ models' = st.m
       /\ model_configs' = st.c
       /\ last_used' = st.l
       /\ closed' = st.closed
       /\ lastOp' = [op |-> "unload", name |-> x, d |-> 0, ret |-> st.ret,
                     raised |-> raises /\ x \in DOMAIN models,
                     error |-> st.error,
                     removed |-> DOMAIN models \ DOMAIN st.m]
       /\ hist' = Disturb(hist, UNION {Affected(y) : y \in DOMAIN models \ DOMAIN st.m})
    /\ UNCHANGED <<available, config, loading_locks, engines, now, pc, call,
                   result, loopHolder, resolved>>

\* variant: the handle is closed but its entries stay in the maps
UnloadClosesOnly(x, raises) ==
    /\ closed' = IF x \in DOMAIN models THEN closed \cup {models[x]} ELSE closed
    /\ lastOp' = [op |-> "unload", name |-> x, d |-> 0,
                  ret |-> x \in DOMAIN models, raised |-> FALSE,
                  error |-> FALSE, removed |-> {}]
    /\ UNCHANGED <<available, config, models, model_configs, last_used,
                   loading_locks, engines, now, pc, call, result, hist,
                   loopHolder, resolved>>
    /\ UNCHANGED gvars

\* unload_model(model_name) called directly
Unload(x, raises) == DoUnload(x, raises) /\ UNCHANGED gvars

\* variant: an entry idle for exactly max_idle_time is collected too
ToUnloadInclusive(max_idle_time) ==
    {x \in DOMAIN last_used : now - last_used[x] >= max_idle_time}

\* the names cleanup_unused_models collects
ToUnload(max_idle_time) ==
    {x \in DOMAIN last_used : now - last_used[x] > max_idle_time}

RECURSIVE UnloadAll(_, _, _)
\* for model_name in to_unload: self.unload_model(model_name)
UnloadAll(st, S, raisers) ==
    IF S = {} \/ st.error THEN st
    ELSE LET x == CHOOSE y \in S : TRUE IN
         UnloadAll(UnloadModel(st, x, x \in raisers), S \ {x}, raisers)

\* variant: the locks of the identifiers that leave the cache are dropped too
CleanupDropsLocks(d, raisers) ==
    /\ LET st == UnloadAll(ManagerState, ToUnload(d), raisers) IN
       /\ models' = st.m
       /\ model_configs' = st.c
       /\ last_used' = st.l
       /\ closed' = st.closed
       /\ loading_locks' = [k \in DOMAIN loading_locks \ (DOMAIN models \ DOMAIN st.m)
                               |-> loading_locks[k]]
       /\ lastOp' = [op |-> "cleanup", name |-> "", d |-> d, ret |-> FALSE,
                     raised |-> ToUnload(d) \cap DOMAIN models \cap raisers # {},
                     error |-> st.error,
                     removed |-> DOMAIN models \ DOMAIN st.m]
       /\ hist' = Disturb(hist, UNION {Affected(y) : y \in DOMAIN models \ DOMAIN st.m})
    /\ UNCHANGED <<available, config, engines, now, pc, call,
                   result, loopHolder, resolved>>
    /\ UNCHANGED gvars

\* cleanup_unused_models(max_idle_time); raisers: the identifiers whose
\* pipe.close() raises
Cleanup(d, raisers) ==
    /\ LET st == UnloadAll(ManagerState, ToUnload(d), raisers) IN
       /\ models' = st.m
       /\ model_configs' = st.c
       /\ last_used' = st.l
       /\ closed' = st.closed
       /\ lastOp' = [op |-> "cleanup", name |-> "", d |-> d, ret |-> FALSE,
                     raised |-> ToUnload(d) \cap DOMAIN models \cap raisers # {},
                     error |-> st.error,
                     removed |-> DOMAIN models \ DOMAIN st.m]
       /\ hist' = Disturb(hist, UNION {Affected(y) : y \in DOMAIN models \ DOMAIN st.m})
    /\ UNCHANGED <<available, config, loading_locks, engines, now, pc, call,
                   result, loopHolder, resolved>>
    /\ UNCHANGED gvars

\* time passes
Tick ==
    /\ now < MaxTime
    /\ now' = now + 1
    /\ lastOp' = NoOp
    /\ UNCHANGED <<available, config, models, model_configs, last_used,
                   loading_locks, engines, closed, pc, call, result, hist,
                   loopHolder, resolved>>
    /\ UNCHANGED gvars

LoadInputs == {EmptyKwargs}

Next ==
    \/ \E p \in Callers, x \in Names, kw \in LoadInputs : LoadCall(p, x, kw)
    \/ \E p \in Callers : LoadResume(p)
    \/ \E p \in Callers, outcome \in {"ok", "none", "raise"} : LoadFinish(p, outcome)
    \/ \E x \in Names, raises \in BOOLEAN : Unload(x, raises)
    \/ \E d \in IdleTimes, raisers \in SUBSET Names : Cleanup(d, raisers)
    \/ Tick

Spec == Init /\ [][Next]_vars

(* ============================ HTTP gateway ============================= *)
\* bound: the fragments one adapter run produces
MaxFrags == 2

HTTP_OK == 200
HTTP_404 == 404
HTTP_500 == 500
HTTP_503 == 503

\* text is a sequence of characters, a character is its code point (ord)
NoText == <<>>
\* the characters str.split() separates on (str.isspace): tab to carriage
\* return, the four information separators, the blank, next line, the
\* no-break space and the other Unicode spaces and line separators
Whitespace ==
    (9..13) \cup (28..32) \cup {133, 160, 5760} \cup (8192..8202) \cup
    {8232, 8233, 8239, 8287, 12288}
\* "Hel" and "lo"
Hel == <<72, 101, 108>>
lo == <<108, 111>>
\* the fragments the adapter may produce: "Hel", "lo", " x\ny"
Fragments == {Hel, lo, <<32, 120, 10, 121>>}
\* the texts a one-shot generation may return: "", "Hello", "Hel lo",
\* "Hel\nlo\n"
Texts == {NoText, Hel \o lo, Hel \o <<32>> \o lo,
          Hel \o <<10>> \o lo \o <<10>>}
\* "Error: "; the exception's message, which follows, is left out
ErrorText == <<69, 114, 114, 111, 114, 58, 32>>

\* len(text.split()): the number of maximal runs of non-whitespace
WordCount(text) ==
    Cardinality({i \in 1..Len(text) :
                    /\ text[i] \notin Whitespace
                    /\ (i = 1 \/ text[i - 1] \in Whitespace)})

\* variant: the fragments are joined with a blank
AccumulateSpaced(full, chunk) ==
    IF full = NoText THEN chunk ELSE full \o <<32>> \o chunk

\* full_response += chunk
Accumulate(full, chunk) == full \o chunk

\* an optional field: absent, or a value
Absent == <<>>
Some(v) == <<v>>

\* the objects of a response; text is `response`, or `message.content` of a
\* chat response

\* variant: an intermediate object carries done:true
FragmentObjectMarkedDone(chunk) ==
    [done |-> TRUE, text |-> chunk, eval_count |-> Absent]

FragmentObject(chunk) == [done |-> FALSE, text |-> chunk, eval_count |-> Absent]
FinalObject(full) ==
    [done |-> TRUE, text |-> NoText, eval_count |-> Some(WordCount(full))]
\* the object sent when the manager gave no stream
EmptyFinal == [done |-> TRUE, text |-> NoText, eval_count |-> Absent]
\* the object sent by the except clause of the streaming generator
ErrorObject == [done |-> TRUE, text |-> ErrorText, eval_count |-> Absent]
\* the body of a one-shot response
OneShotObject(text) ==
    [done |-> TRUE, text |-> text, eval_count |-> Some(WordCount(text))]

\* if not LMDEPLOY_AVAILABLE: raise HTTPException(status_code=503), ahead of
\* the handler's try block; the flag is the server module's
BackendDown == ~server_available

\* generate_text and generate_stream of the manager: if not
\* LMDEPLOY_AVAILABLE: return None, ahead of their load_model call; the flag
\* is the manager module's
ManagerDown == ~available

\* an HTTPException raised inside a handler's try block is an Exception: the
\* handler's `except Exception` catches it and raises a 500 in its place
CaughtInHandler(status) == HTTP_500

\* the load endpoint: success, or HTTPException(500) inside the try block
LoadEndpointStatus(pipe) ==
    IF pipe # None THEN HTTP_OK ELSE CaughtInHandler(HTTP_500)

\* the unload endpoint: success, or HTTPException(404) inside the try block
UnloadEndpointStatus(success) ==
    IF success THEN HTTP_OK ELSE CaughtInHandler(HTTP_404)

\* variant: the manager hands out a stream whatever load_model returned
StreamAvailableAlways(pipe) == TRUE

\* generate_stream of the manager: `if not pipe: return None`
StreamAvailable(pipe) == pipe # None

Respond(req, status, out) ==
    [req EXCEPT !.stage = "responded", !.status = status, !.out = out]

\* a request as the handler starts on it; a StreamingResponse is a 200
NewRequest(kind, x, streaming) ==
    [NoRequest EXCEPT !.kind = kind, !.streaming = streaming,
                      !.stage = "acquiring",
                      !.status = IF streaming THEN HTTP_OK ELSE None]

\* what the handler of request req does, without suspending, once its
\* load_model call has returned pipe; starts: threading.Thread.start works
Continue(p, req, pipe, starts) ==
    IF req.kind = "load"
    THEN /\ gw' = [gw EXCEPT ![p] = Respond(req, LoadEndpointStatus(pipe), <<>>)]
         /\ UNCHANGED stream
    ELSE IF ~req.streaming
    THEN \* generate_text: None without a pipeline, else the executor call
         /\ gw' = [gw EXCEPT ![p] =
                      IF pipe = None
                      THEN Respond(req, CaughtInHandler(HTTP_500), <<>>)
                      ELSE [req EXCEPT !.stage = "generating"]]
         /\ UNCHANGED stream
    ELSE IF ~StreamAvailable(pipe)
    THEN \* stream is None: one final object, and return
         /\ gw' = [gw EXCEPT ![p] = Respond(req, HTTP_OK, <<EmptyFinal>>)]
         /\ UNCHANGED stream
    ELSE IF ~starts
    THEN \* stream_thread.start() raises out of stream_generator
         /\ gw' = [gw EXCEPT ![p] = Respond(req, HTTP_OK, <<ErrorObject>>)]
         /\ UNCHANGED stream
    ELSE \* the producer thread runs; the consumer awaits result_queue.get
         /\ gw' = [gw EXCEPT ![p] = [req EXCEPT !.stage = "streaming"]]
         /\ stream' = [owner |-> p, thread |-> "running", queue |-> <<>>,
                       produced |-> 0, raised |-> FALSE, made |-> <<>>,
             escaped |-> FALSE, put |-> <<>>]

\* POST /api/models/load, /api/generate or /api/chat: the handler (for a
\* streaming request, the response generator) up to its first suspension
GCall(p, kind, x, streaming, starts) ==
    /\ gw[p].stage = "idle"
    /\ pc[p] = "idle"
    /\ streaming => kind # "load"
    \* one generation request in a behaviour; load requests compete with it
    /\ kind # "load" => \A q \in Callers : gw[q].kind \in {"none", "load"}
    /\ UNCHANGED <<admin, chat, phase, server_available>>
    /\ LET req == NewRequest(kind, x, streaming) IN
       IF kind # "load" /\ BackendDown
       THEN /\ gw' = [gw EXCEPT ![p] = Respond(req, HTTP_503, <<>>)]
            /\ UNCHANGED <<stream, mvars>>
       ELSE IF kind # "load" /\ ManagerDown
       THEN \* the manager returns None and load_model is not called
            /\ Continue(p, req, None, starts)
            /\ UNCHANGED mvars
       ELSE /\ DoLoadCall(p, x, EmptyKwargs)
            /\ IF pc'[p] = "done"
               THEN Continue(p, req, result'[p], starts)
               ELSE gw' = [gw EXCEPT ![p] = req] /\ UNCHANGED stream

\* the handler's load_model call is woken in Lock.acquire
GResume(p, starts) ==
    /\ gw[p].stage = "acquiring"
    /\ DoLoadResume(p)
    /\ IF pc'[p] = "done"
       THEN Continue(p, gw[p], result'[p], starts)
       ELSE UNCHANGED <<gw, stream>>
    /\ UNCHANGED <<admin, chat, phase, server_available>>

\* the construction started by the handler's load_model call has finished
GFinish(p, outcome, starts) ==
    /\ gw[p].stage = "acquiring"
    /\ DoLoadFinish(p, outcome)
    /\ Continue(p, gw[p], result'[p], starts)
    /\ UNCHANGED <<admin, chat, phase, server_available>>

\* what generate_text returns once the executor call is over: the text of
\* the first result, or None (no results; except Exception: return None)
GenerateText(outcome, text) == IF outcome = "ok" THEN Some(text) ELSE Absent

\* the handler's answer to what generate_text returned
OneShotResponse(req, response_text) ==
    IF response_text = Absent
    THEN Respond(req, CaughtInHandler(HTTP_500), <<>>)
    ELSE Respond(req, HTTP_OK, <<OneShotObject(response_text[1])>>)

\* variant: a failed generation unloads the model
GGeneratedEvicts(p, outcome, text) ==
    /\ gw[p].stage = "generating"
    /\ gw' = [gw EXCEPT ![p] = OneShotResponse(@, GenerateText(outcome, text))]
    /\ IF outcome = "ok" THEN UNCHANGED mvars
       ELSE DoUnload(call[p].name, FALSE)
    /\ UNCHANGED <<stream, admin, chat, phase, server_available>>

\* generate_text: the executor finished sync_generate; outcome "ok" (results
\* with a text), "empty" (no results), "raise"
GGenerated(p, outcome, text) ==
    /\ gw[p].stage = "generating"
    /\ gw' = [gw EXCEPT ![p] = OneShotResponse(@, GenerateText(outcome, text))]
    /\ UNCHANGED <<stream, admin, chat, phase, server_available, mvars>>

\* run_stream: result_queue.put(("chunk", chunk)) for the next fragment of
\* pipe.stream_infer
\* variant: the channel hands the newest message out first
ProduceLifo(frag) ==
    /\ stream.thread = "running"
    /\ stream.produced < MaxFrags
    /\ stream' = [stream EXCEPT !.queue = <<[kind |-> "chunk", value |-> frag]>> \o @,
                                !.produced = @ + 1,
                                !.made = Append(@, frag),
                                !.put = Append(@, [kind |-> "chunk", value |-> frag])]
    /\ UNCHANGED <<gw, admin, chat, phase, server_available, mvars>>

Produce(frag) ==
    /\ stream.thread = "running"
    /\ stream.produced < MaxFrags
    /\ stream' = [stream EXCEPT !.queue = Append(@, [kind |-> "chunk", value |-> frag]),
                                !.produced = @ + 1,
                                !.made = Append(@, frag),
                                !.put = Append(@, [kind |-> "chunk", value |-> frag])]
    /\ UNCHANGED <<gw, admin, chat, phase, server_available, mvars>>

\* sync_stream: try: for output in pipe.stream_infer(...) / except Exception:
\* log, return -- does the adapter's error leave sync_stream?  Never.
EscapesSyncStream(raises) == FALSE

\* variant: an adapter error ends the thread without a last message
TerminalMessagesLostOnError(raises) ==
    IF raises THEN <<>> ELSE <<[kind |-> "done", value |-> NoText]>>

\* what run_stream puts last: ("done", None) after the loop, ("error", str(e))
\* from its except clause
TerminalMessages(raises) ==
    IF EscapesSyncStream(raises)
    THEN <<[kind |-> "error", value |-> ErrorText]>>
    ELSE <<[kind |-> "done", value |-> NoText]>>

\* variant: the except clause puts its message after the loop's "done"
ProducerEndsTwice(raises) ==
    /\ stream.thread = "running"
    /\ stream' = [stream EXCEPT
                     !.queue = @ \o TerminalMessages(raises) \o
                               (IF raises THEN <<[kind |-> "error", value |-> ErrorText]>>
                                ELSE <<>>),
                     !.put = @ \o TerminalMessages(raises) \o
                             (IF raises THEN <<[kind |-> "error", value |-> ErrorText]>>
                              ELSE <<>>),
                     !.thread = "ended",
                     !.raised = raises]
    /\ UNCHANGED <<gw, admin, chat, phase, server_available, mvars>>

\* the adapter's iterator ends, or raises, and the producer thread with it
ProducerEnds(raises) ==
    /\ stream.thread = "running"
    /\ stream' = [stream EXCEPT !.queue = @ \o TerminalMessages(raises),
                                !.put = @ \o TerminalMessages(raises),
                                !.thread = "ended",
                                !.raised = raises]
    /\ UNCHANGED <<gw, admin, chat, phase, server_available, mvars>>

\* the consumer's result_queue.get returns the next message: a chunk is
\* yielded and sent as a done:false object; "done" and "error" break the
\* loop and the final object follows
Consume(p) ==
    /\ stream.owner = p
    /\ gw[p].stage = "streaming"
    /\ stream.queue # <<>>
    /\ LET msg == Head(stream.queue) IN
       gw' = [gw EXCEPT ![p] =
                 IF msg.kind = "chunk"
                 THEN [@ EXCEPT !.full_response = Accumulate(@, msg.value),
                                !.out = Append(@, FragmentObject(msg.value))]
                 ELSE Respond(@, HTTP_OK,
                              Append(@.out, FinalObject(@.full_response)))]
    /\ stream' = [stream EXCEPT !.queue = Tail(@)]
    /\ UNCHANGED <<admin, chat, phase, server_available, mvars>>

\* variant: the consumer's cleanup also unloads the model it streamed from
AbandonUnloads(p) ==
    /\ stream.owner = p
    /\ gw[p].stage = "streaming"
    /\ gw' = [gw EXCEPT ![p].stage = "closing"]
    /\ DoUnload(call[p].name, FALSE)
    /\ UNCHANGED <<stream, admin, chat, phase, server_available>>

\* the response generator is closed before the terminal message (the client
\* went away): the consumer's loop is left through its `finally`
Abandon(p) ==
    /\ stream.owner = p
    /\ gw[p].stage = "streaming"
    /\ gw' = [gw EXCEPT ![p].stage = "closing"]
    /\ UNCHANGED <<stream, admin, chat, phase, server_available, mvars>>

\* variant: the join has no timeout
JoinWithoutTimeout(thread) == thread = "ended"

\* stream_thread.join(timeout=1.0) returns when the thread has finished or
\* the timeout has run out
JoinReturns(thread) == TRUE

\* finally: stream_thread.join(timeout=1.0) of an abandoned stream returns.
\* The producer thread runs on meanwhile and afterwards.
CleanupDone(p) ==
    /\ stream.owner = p
    /\ gw[p].stage = "closing"
    /\ JoinReturns(stream.thread)
    /\ gw' = [gw EXCEPT ![p].stage = "abandoned"]
    /\ UNCHANGED <<stream, admin, chat, phase, server_available, mvars>>

\* DELETE /api/models/unload/{model_name}
GUnload(x, raises) ==
    /\ DoUnload(x, raises)
    /\ admin' = [endpoint |-> "unload", name |-> x,
                 status |-> IF lastOp'.error THEN CaughtInHandler(HTTP_500)
                            ELSE UnloadEndpointStatus(lastOp'.ret)]
    /\ UNCHANGED <<gw, stream, chat, phase, server_available>>

GenerationEndpoints == {"generate", "chat"}

(* ------------------------- chat prompt formatting ---------------------- *)
\* the longest list of chat messages
MaxMsgs == 2

\* a string is the sequence of its pieces: a label, a content, a newline
Newline == "\n"
Roles == {"system", "user", "assistant", "tool"}
Contents == {"be terse", "hi", ""}
Messages == [role : Roles, content : Contents]
MessageLists == UNION {[1..n -> Messages] : n \in 0..MaxMsgs}

RECURSIVE PromptParts(_)
\* the loop over the messages: one part for each message whose role is
\* system, user or assistant; a message of any other role adds nothing
PromptParts(messages) ==
    IF messages = <<>> THEN <<>>
    ELSE LET message == Head(messages)
             rest == PromptParts(Tail(messages)) IN
         IF message.role = "system"
         THEN <<(<<"System: ", message.content>>)>> \o rest
         ELSE IF message.role = "user"
         THEN <<(<<"User: ", message.content>>)>> \o rest
         ELSE IF message.role = "assistant"
         THEN <<(<<"Assistant: ", message.content>>)>> \o rest
         ELSE rest

RECURSIVE JoinTrailing(_, _)
\* variant: the separator follows every part
JoinTrailing(sep, parts) ==
    IF parts = <<>> THEN <<>>
    ELSE Head(parts) \o <<sep>> \o JoinTrailing(sep, Tail(parts))

RECURSIVE Join(_, _)
\* sep.join(parts): the separator stands between consecutive parts
Join(sep, parts) ==
    IF parts = <<>> THEN <<>>
    ELSE IF Tail(parts) = <<>> THEN Head(parts)
    ELSE Head(parts) \o <<sep>> \o Join(sep, Tail(parts))

\* "\n".join(prompt_parts) + "\nAssistant: "
format_prompt_from_messages(messages) ==
    Join(Newline, PromptParts(messages)) \o <<Newline, "Assistant: ">>

\* POST /api/chat, up to the prompt: the 503 check, then the messages are
\* converted
ChatPrompt(messages) ==
    /\ ~BackendDown
    /\ chat' = [messages |-> messages,
                prompt |-> format_prompt_from_messages(messages)]
    /\ UNCHANGED <<gw, stream, admin, phase, server_available, mvars>>

NextFmt == \E messages \in MessageLists : ChatPrompt(messages)

SpecFmt == Init /\ [][NextFmt]_vars

(* ------------------------ loads with overrides ------------------------- *)
\* the keyword arguments of the load_model calls: none, or one override
OverrideInputs ==
    {EmptyKwargs, [max_model_len |-> 512], [tensor_parallel_size |-> 4]}

\* load_model(model_name, **kwargs) calls with and without overrides
NextO ==
    \/ \E p \in Callers, x \in Names, kw \in OverrideInputs : LoadCall(p, x, kw)
    \/ \E p \in Callers : LoadResume(p)
    \/ \E p \in Callers, outcome \in {"ok", "none", "raise"} : LoadFinish(p, outcome)

SpecO == Init /\ [][NextO]_vars

(* ------------------------------ shutdown ------------------------------- *)
\* POST /api/models/load/{model_name}: the handler, to the first suspension
\* of its load_model call, or to its response
ServedLoad(p, x) == GCall(p, "load", x, FALSE, TRUE)

\* uvicorn.run(...): asked to exit, the server stops accepting requests and
\* lets the requests in flight run on
ShutdownBegins ==
    /\ phase.life = "serving"
    /\ phase' = [life |-> "draining",
                 inflight |-> {p \in Callers : pc[p] \in {"waiting", "constructing"}}]
    /\ UNCHANGED <<gw, stream, admin, chat, server_available, mvars>>

\* variant: the shutdown event is sent while requests are in flight
DrainedUnchecked == TRUE

\* uvicorn.run(...): the shutdown event is sent to the application once the
\* requests in flight have ended
Drained == \A p \in Callers : pc[p] \notin {"waiting", "constructing"}

\* shutdown_event: for model_name in model_manager.list_loaded_models():
\* model_manager.unload_model(model_name).  The handler has no suspension
\* point and tests nothing; raisers: the identifiers whose pipe.close()
\* raises
Shutdown(raisers) ==
    /\ LET st == UnloadAll(ManagerState, DOMAIN models, raisers) IN
       /\ models' = st.m
       /\ model_configs' = st.c
       /\ last_used' = st.l
       /\ closed' = st.closed
       /\ hist' = Disturb(hist, UNION {Affected(y) : y \in DOMAIN models \ DOMAIN st.m})
    /\ lastOp' = NoOp
    /\ phase' = [phase EXCEPT !.life = "stopped"]
    /\ UNCHANGED <<available, config, loading_locks, engines, now, pc, call,
                   result, loopHolder, resolved>>
    /\ UNCHANGED <<gw, stream, admin, chat, server_available>>

\* the application as uvicorn.run(...) serves it: a request reaches its
\* handler only while the server is serving, the requests in flight run to
\* their responses, and the shutdown handler is called once, after the
\* shutdown has begun and the requests in flight have ended.  The handlers
\* themselves (ServedLoad, Shutdown) test none of this.
NextS ==
    \/ \E p \in Callers, x \in Names : phase.life = "serving" /\ ServedLoad(p, x)
    \/ \E p \in Callers : GResume(p, TRUE)
    \/ \E p \in Callers, outcome \in {"ok", "none", "raise"} :
          GFinish(p, outcome, TRUE)
    \/ ShutdownBegins
    \/ \E raisers \in SUBSET Names :
          phase.life = "draining" /\ Drained /\ Shutdown(raisers)

SpecS == Init /\ [][NextS]_vars

\* the load request that competes with the generation request for the
\* manager: one in a behaviour
CompetingLoad(p, x) ==
    /\ \A q \in Callers : gw[q].kind # "load"
    /\ GCall(p, "load", x, FALSE, TRUE)

\* the generation endpoints, with a load request competing for the manager
NextG ==
    \/ \E p \in Callers, kind \in GenerationEndpoints, x \in Names,
          streaming \in BOOLEAN, starts \in BOOLEAN :
          GCall(p, kind, x, streaming, starts)
    \/ \E p \in Callers, x \in Names : CompetingLoad(p, x)
    \/ \E p \in Callers, starts \in BOOLEAN : GResume(p, starts)
    \/ \E p \in Callers, outcome \in {"ok", "none", "raise"}, starts \in BOOLEAN :
          GFinish(p, outcome, starts)
    \/ \E p \in Callers, outcome \in {"ok", "empty", "raise"}, text \in Texts :
          GGenerated(p, outcome, text)
    \/ \E frag \in Fragments : Produce(frag)
    \/ \E raises \in BOOLEAN : ProducerEnds(raises)
    \/ \E p \in Callers : Consume(p)
    \/ \E p \in Callers : Abandon(p)
    \/ \E p \in Callers : CleanupDone(p)

SpecG == Init /\ [][NextG]_vars

\* the consumer is a task of the event loop and its result_queue.get runs on
\* a pool thread: a message that is in the queue is eventually taken
SpecGF ==
    /\ SpecG
    /\ WF_vars(\E p \in Callers : Consume(p))
    /\ WF_vars(\E p \in Callers : CleanupDone(p))

\* the model-management endpoints
NextA ==
    \/ \E p \in Callers, x \in Names : GCall(p, "load", x, FALSE, TRUE)
    \/ \E p \in Callers : GResume(p, TRUE)
    \/ \E p \in Callers, outcome \in {"ok", "none", "raise"} :
          GFinish(p, outcome, TRUE)
    \/ \E x \in Names, raises \in BOOLEAN : GUnload(x, raises)

SpecA == Init /\ [][NextA]_vars

\* POST /api/generate, one-shot or streamed
Generation(p, x, streaming) == GCall(p, "generate", x, streaming, TRUE)

\* a generation, with unload requests and idle cleanup going on beside it
NextU ==
    \/ \E p \in Callers, x \in Names, streaming \in BOOLEAN :
          Generation(p, x, streaming)
    \/ \E p \in Callers, outcome \in {"ok", "none", "raise"} :
          GFinish(p, outcome, TRUE)
    \/ \E p \in Callers, outcome \in {"ok", "empty", "raise"}, text \in Texts :
          GGenerated(p, outcome, text)
    \/ \E frag \in Fragments : Produce(frag)
    \/ \E raises \in BOOLEAN : ProducerEnds(raises)
    \/ \E p \in Callers : Consume(p)
    \/ \E x \in Names, raises \in BOOLEAN : GUnload(x, raises)
    \/ \E d \in IdleTimes : Cleanup(d, {})
    \/ Tick

SpecU == Init /\ [][NextU]_vars

(* ============================== vLLM manager =========================== *)

\* the keyword parameters load_model itself passes to AsyncEngineArgs
EngineArgsKeys == {"model", "max_model_len", "max_num_seqs",
                   "tensor_parallel_size", "gpu_memory_utilization"}

\* AsyncEngineArgs(model=..., max_model_len=..., ..., **kwargs): a key given
\* both by name and through **kwargs is a TypeError
DuplicateKeyword(kwargs) == DOMAIN kwargs \cap EngineArgsKeys # {}

\* the engine arguments of the vLLM load_model
EngineArgs(model_name, kwargs, cfg) ==
    LET model_config == get_model_config(model_name) IN
    [model |-> model_name,
     max_model_len |-> Get(kwargs, "max_model_len",
                           Get(model_config, "max_model_len", cfg.max_model_len)),
     max_num_seqs |-> Get(kwargs, "max_num_seqs", cfg.max_num_seqs),
     tensor_parallel_size |-> Get(kwargs, "tensor_parallel_size",
                                  Get(model_config, "tensor_parallel_size",
                                      cfg.tensor_parallel_size)),
     gpu_memory_utilization |-> Get(kwargs, "gpu_memory_utilization",
                                    cfg.gpu_memory_utilization),
     extra |-> kwargs]

InitV ==
    /\ \E g \in VImportGuards :
           server_available = g.server /\ available = g.manager
    /\ config \in ConfigChoices
    /\ models = EmptyDict
    /\ model_configs = EmptyDict
    /\ last_used = EmptyDict
    /\ loading_locks = EmptyDict
    /\ engines = EmptyDict
    /\ closed = {}
    /\ now = 0
    /\ pc = [p \in Callers |-> "idle"]
    /\ call = [p \in Callers |-> NoCall]
    /\ result = [p \in Callers |-> None]
    /\ hist = [p \in Callers |-> NoHist]
    /\ loopHolder = NoCaller
    /\ lastOp = NoOp
    /\ resolved = NoResolved
    /\ GatewayIdle

\* the vLLM load_model once the per-identifier lock is held
VLockedSection(p, x, kw, locks, h) ==
    IF DoubleCheck(x)
    THEN /\ last_used' = Put(last_used, x, now)
         /\ result' = [result EXCEPT ![p] = models[x]]
         /\ pc' = [pc EXCEPT ![p] = "done"]
         /\ loading_locks' = Release(locks, x)
         /\ hist' = h
         /\ UNCHANGED loopHolder
    ELSE IF DuplicateKeyword(kw)
    THEN \* TypeError inside the try block: caught, return None
         /\ result' = [result EXCEPT ![p] = None]
         /\ pc' = [pc EXCEPT ![p] = "done"]
         /\ loading_locks' = Release(locks, x)
         /\ hist' = Disturb(h, Affected(x) \cup {p})
         /\ UNCHANGED <<last_used, loopHolder>>
    ELSE \* AsyncLLMEngine.from_engine_args(engine_args): an ordinary call,
         \* the coroutine does not suspend and the event loop runs nothing
         \* else until it returns
         /\ pc' = [pc EXCEPT ![p] = "constructing"]
         /\ loopHolder' = p
         /\ loading_locks' = locks
         /\ hist' = [h EXCEPT ![p].built = TRUE]
         /\ UNCHANGED <<result, last_used>>

\* vLLM load_model(model_name, **kwargs) up to the engine construction, as
\* it acts on the manager
DoVLoadCall(p, x, kw) ==
    /\ loopHolder = NoCaller
    /\ pc[p] = "idle"
    /\ lastOp' = NoOp
    /\ UNCHANGED <<available, config, models, model_configs, engines, closed,
                   now, resolved>>
    /\ LET h == [hist EXCEPT ![p] = [StartHist(x) EXCEPT !.overrides = kw]]
           locks == IF LockKey(x) \in DOMAIN loading_locks THEN loading_locks
                    ELSE Put(loading_locks, LockKey(x), NewLock)
       IN
       IF ~available
       THEN /\ result' = [result EXCEPT ![p] = None]
            /\ pc' = [pc EXCEPT ![p] = "done"]
            /\ hist' = h
            /\ UNCHANGED <<last_used, loading_locks, loopHolder>>
       ELSE IF IsCached(x)
       THEN /\ last_used' = Put(last_used, x, now)
            /\ result' = [result EXCEPT ![p] = models[x]]
            /\ pc' = [pc EXCEPT ![p] = "done"]
            /\ hist' = h
            /\ UNCHANGED <<loading_locks, loopHolder>>
       ELSE IF CanAcquireNow(locks[LockKey(x)])
       THEN VLockedSection(p, x, kw, [locks EXCEPT ![LockKey(x)].locked = TRUE], h)
       ELSE \* suspended in Lock.acquire (the lock is never found held: the
            \* locked section has no suspension point)
            /\ pc' = [pc EXCEPT ![p] = "waiting"]
            /\ loading_locks' = [locks EXCEPT ![LockKey(x)].waiters = Append(@, p)]
            /\ hist' = h
            /\ UNCHANGED <<result, last_used, loopHolder>>
    /\ call' = [call EXCEPT ![p] = Frame(x, kw, pc'[p] = "done")]

\* vLLM load_model called directly
VLoadCall(p, x, kw) == DoVLoadCall(p, x, kw) /\ UNCHANGED gvars

\* from_engine_args returned ("ok") or raised ("raise"); the rest of
\* load_model follows without suspension, as it acts on the manager
DoVLoadFinish(p, outcome) ==
    /\ pc[p] = "constructing"
    /\ loopHolder = p
    /\ LET x == call[p].name IN
       /\ IF outcome = "ok"
          THEN LET engine == FreshHandle IN
               /\ engines' = Put(engines, engine,
                                 EngineArgs(x, call[p].kwargs, config))
               /\ models' = Put(models, x, engine)
               /\ model_configs' = Put(model_configs, x, get_model_config(x))
               /\ last_used' = Put(last_used, x, now)
               /\ result' = [result EXCEPT ![p] = engine]
               /\ hist' = hist
          ELSE /\ result' = [result EXCEPT ![p] = None]
               /\ hist' = Disturb(hist, Affected(x))
               /\ UNCHANGED <<engines, models, model_configs, last_used>>
       /\ loading_locks' = Release(loading_locks, x)
    /\ pc' = [pc EXCEPT ![p] = "done"]
    /\ loopHolder' = NoCaller
    /\ call' = [call EXCEPT ![p] = Frame(@.name, @.kwargs, TRUE)]
    /\ lastOp' = NoOp
    /\ UNCHANGED <<available, config, closed, now, resolved>>

\* vLLM load_model called directly: the construction has finished
VLoadFinish(p, outcome) == DoVLoadFinish(p, outcome) /\ UNCHANGED gvars

\* the vLLM unload_model(model_name) applied to a manager state
VUnloadModel(st, x) ==
    IF x \in DOMAIN st.m
    THEN LET st1 == [st EXCEPT !.m = Del(st.m, x),
                               !.closed = st.closed \cup {st.m[x]}] IN
         IF x \notin DOMAIN st1.c THEN [st1 EXCEPT !.error = TRUE]
         ELSE LET st2 == [st1 EXCEPT !.c = Del(st1.c, x)] IN
              IF x \notin DOMAIN st2.l THEN [st2 EXCEPT !.error = TRUE]
              ELSE [st2 EXCEPT !.l = Del(st2.l, x), !.ret = TRUE]
    ELSE [st EXCEPT !.ret = FALSE]

\* vLLM unload_model(model_name), called on the event loop
VUnload(x) ==
    /\ loopHolder = NoCaller
    /\ LET st == VUnloadModel(ManagerState, x) IN
       /\ models' = st.m
       /\ model_configs' = st.c
       /\ last_used' = st.l
       /\ closed' = st.closed
       /\ lastOp' = [op |-> "unload", name |-> x, d |-> 0, ret |-> st.ret,
                     raised |-> FALSE, error |-> st.error,
                     removed |-> DOMAIN models \ DOMAIN st.m]
       /\ hist' = Disturb(hist, UNION {Affected(y) : y \in DOMAIN models \ DOMAIN st.m})
    /\ UNCHANGED <<available, config, loading_locks, engines, now, pc, call,
                   result, loopHolder, resolved>>
    /\ UNCHANGED gvars

RECURSIVE VUnloadAll(_, _)
VUnloadAll(st, S) ==
    IF S = {} \/ st.error THEN st
    ELSE LET x == CHOOSE y \in S : TRUE IN VUnloadAll(VUnloadModel(st, x), S \ {x})

\* vLLM cleanup_unused_models(max_idle_time), a coroutine on the event loop
VCleanup(d) ==
    /\ loopHolder = NoCaller
    /\ LET st == VUnloadAll(ManagerState, ToUnload(d)) IN
       /\ models' = st.m
       /\ model_configs' = st.c
       /\ last_used' = st.l
       /\ closed' = st.closed
       /\ lastOp' = [op |-> "cleanup", name |-> "", d |-> d, ret |-> FALSE,
                     raised |-> FALSE, error |-> st.error,
                     removed |-> DOMAIN models \ DOMAIN st.m]
       /\ hist' = Disturb(hist, UNION {Affected(y) : y \in DOMAIN models \ DOMAIN st.m})
    /\ UNCHANGED <<available, config, loading_locks, engines, now, pc, call,
                   result, loopHolder, resolved>>
    /\ UNCHANGED gvars

VLoadInputs == {EmptyKwargs, [max_model_len |-> 512]}

NextV ==
    \/ \E p \in Callers, x \in Names, kw \in VLoadInputs : VLoadCall(p, x, kw)
    \/ \E p \in Callers, outcome \in {"ok", "raise"} : VLoadFinish(p, outcome)
    \/ \E x \in Names : VUnload(x)
    \/ \E d \in IdleTimes : VCleanup(d)
    \/ Tick

SpecV == InitV /\ [][NextV]_vars

(* --------------------------- vLLM streaming ---------------------------- *)
\* what an engine output carries: a piece of text, or none
VOutputs == Fragments \cup {NoText}

\* the vLLM manager's generate_stream once load_model has returned engine,
\* and the server's generator up to its first suspension; setup: the call
\* engine.generate(prompt, sampling_params) inside the try block works
VContinue(p, req, engine, setup) ==
    IF engine = None \/ ~setup
    THEN \* generate_stream returned None: one final object, and return
         /\ gw' = [gw EXCEPT ![p] = Respond(req, HTTP_OK, <<EmptyFinal>>)]
         /\ UNCHANGED stream
    ELSE \* stream_generator() is returned and the server iterates over it
         /\ gw' = [gw EXCEPT ![p] = [req EXCEPT !.stage = "streaming"]]
         /\ stream' = [NoStream EXCEPT !.owner = p, !.thread = "running"]

\* the vLLM server's POST /api/generate with stream=true
VStreamCall(p, x, setup) ==
    /\ gw[p].stage = "idle"
    /\ pc[p] = "idle"
    /\ stream.owner = NoCaller
    /\ UNCHANGED <<admin, chat, phase, server_available>>
    /\ LET req == NewRequest("generate", x, TRUE) IN
       IF BackendDown
       THEN /\ gw' = [gw EXCEPT ![p] = Respond(req, HTTP_503, <<>>)]
            /\ UNCHANGED <<stream, mvars>>
       ELSE IF ManagerDown
       THEN \* the manager returns None and load_model is not called
            /\ VContinue(p, req, None, setup)
            /\ UNCHANGED mvars
       ELSE /\ DoVLoadCall(p, x, EmptyKwargs)
            /\ IF pc'[p] = "done"
               THEN VContinue(p, req, result'[p], setup)
               ELSE gw' = [gw EXCEPT ![p] = req] /\ UNCHANGED stream

\* the engine construction started for the request has finished
VStreamLoaded(p, outcome, setup) ==
    /\ gw[p].stage = "acquiring"
    /\ DoVLoadFinish(p, outcome)
    /\ VContinue(p, gw[p], result'[p], setup)
    /\ UNCHANGED <<admin, chat, phase, server_available>>

\* async for request_output in results: an unfinished output arrives; its
\* text, unless empty, is yielded and sent as a done:false object
VStreamOutput(p, text) ==
    /\ stream.owner = p
    /\ gw[p].stage = "streaming"
    /\ stream.produced < MaxFrags
    /\ stream' = [stream EXCEPT !.produced = @ + 1,
                                !.made = IF text = NoText THEN @ ELSE Append(@, text)]
    /\ gw' = [gw EXCEPT ![p] =
                 IF text = NoText THEN @
                 ELSE [@ EXCEPT !.full_response = Accumulate(@, text),
                                !.out = Append(@, FragmentObject(text))]]
    /\ UNCHANGED <<admin, chat, phase, server_available, mvars>>

\* the finished output arrives (break) or the iterator ends: the final
\* object follows
VStreamFinished(p) ==
    /\ stream.owner = p
    /\ gw[p].stage = "streaming"
    /\ stream' = [stream EXCEPT !.thread = "ended"]
    /\ gw' = [gw EXCEPT ![p] =
                 Respond(@, HTTP_OK, Append(@.out, FinalObject(@.full_response)))]
    /\ UNCHANGED <<admin, chat, phase, server_available, mvars>>

\* the engine raises while the stream is iterated: stream_generator has no
\* try block, so the exception leaves it through the server's `async for`
\* and reaches the except clause of the server's generator
VStreamRaises(p) ==
    /\ stream.owner = p
    /\ gw[p].stage = "streaming"
    /\ stream' = [stream EXCEPT !.thread = "ended", !.raised = TRUE,
                                !.escaped = TRUE]
    /\ gw' = [gw EXCEPT ![p] = Respond(@, HTTP_OK, Append(@.out, ErrorObject))]
    /\ UNCHANGED <<admin, chat, phase, server_available, mvars>>

NextVS ==
    \/ \E p \in Callers, x \in Names, setup \in BOOLEAN : VStreamCall(p, x, setup)
    \/ \E p \in Callers, outcome \in {"ok", "raise"}, setup \in BOOLEAN :
           VStreamLoaded(p, outcome, setup)
    \/ \E p \in Callers, text \in VOutputs : VStreamOutput(p, text)
    \/ \E p \in Callers : VStreamFinished(p)
    \/ \E p \in Callers : VStreamRaises(p)

SpecVS == InitV /\ [][NextVS]_vars

(* ====================== configuration resolution ======================= *)

\* every combination of per-call overrides
OverrideValues ==
    [max_model_len |-> 512, max_num_seqs |-> 8, tensor_parallel_size |-> 4,
     cache_max_entry_count |-> 40]
AllKwargs == {[k \in K |-> OverrideValues[k]] : K \in SUBSET DOMAIN OverrideValues}
CfgNames == DOMAIN SUPPORTED_MODELS \cup {Custom}

InitCfg ==
    /\ available = TRUE
    /\ server_available = TRUE
    /\ config \in ConfigChoices
    /\ models = EmptyDict
    /\ model_configs = EmptyDict
    /\ last_used = EmptyDict
    /\ loading_locks = EmptyDict
    /\ engines = EmptyDict
    /\ closed = {}
    /\ now = 0
    /\ pc = [p \in Callers |-> "idle"]
    /\ call = [p \in Callers |-> NoCall]
    /\ result = [p \in Callers |-> None]
    /\ hist = [p \in Callers |-> NoHist]
    /\ loopHolder = NoCaller
    /\ lastOp = NoOp
    /\ resolved = NoResolved
    /\ GatewayIdle

\* the engine configuration load_model builds for (model_name, kwargs)
Resolve(x, kw) ==
    /\ resolved' = [name |-> x, kwargs |-> kw, engine |-> EngineConfig(x, kw, config)]
    /\ UNCHANGED <<available, config, models, model_configs, last_used,
                   loading_locks, engines, closed, now, pc, call, result, hist,
                   loopHolder, lastOp>>
    /\ UNCHANGED gvars

NextCfg == \E x \in CfgNames, kw \in AllKwargs : Resolve(x, kw)

SpecCfg == InitCfg /\ [][NextCfg]_vars

(* ------------------- vLLM engine-argument resolution ------------------- *)

\* every combination of per-call overrides of the vLLM load_model
VOverrideValues ==
    [max_model_len |-> 512, max_num_seqs |-> 8, tensor_parallel_size |-> 4,
     gpu_memory_utilization |-> 50]
VAllKwargs ==
    {[k \in K |-> VOverrideValues[k]] : K \in SUBSET DOMAIN VOverrideValues}

\* the exception a call with a repeated keyword argument raises
TypeError == [error |-> "TypeError"]

\* the outcome of the AsyncEngineArgs(...) call in load_model: the engine
\* arguments, or the TypeError of a keyword given twice
BuildEngineArgs(model_name, kwargs, cfg) ==
    IF DuplicateKeyword(kwargs) THEN TypeError
    ELSE EngineArgs(model_name, kwargs, cfg)

\* the engine arguments the vLLM load_model builds for (model_name, kwargs)
ResolveV(x, kw) ==
    /\ resolved' = [name |-> x, kwargs |-> kw,
                    engine |-> BuildEngineArgs(x, kw, config)]
    /\ UNCHANGED <<available, config, models, model_configs, last_used,
                   loading_locks, engines, closed, now, pc, call, result, hist,
                   loopHolder, lastOp>>
    /\ UNCHANGED gvars

NextCfgV == \E x \in CfgNames, kw \in VAllKwargs : ResolveV(x, kw)

SpecCfgV == InitCfg /\ [][NextCfgV]_vars

(* ================================ claims =============================== *)

\* two load_model calls for the same identifier that were in progress at the
\* same time (or one and the same call), X not cached when either started
Concurrent(p, q) ==
    /\ Started(p) /\ Started(q)
    /\ call[p].name = call[q].name
    /\ p = q \/ q \in hist[p].peers \/ p \in hist[q].peers
    /\ ~hist[p].cached /\ ~hist[q].cached

SingleFlight(p, q) ==
    /\ hist[p].built /\ hist[q].built => p = q
    /\ Done(p) /\ Done(q) => result[p] # None /\ result[p] = result[q]

\* C1 (as stated): for X not cached, N concurrent load_model(X) calls run
\* the construction step exactly once and all return the same handle.
C1_Claim ==
    available => \A p, q \in Callers : Concurrent(p, q) => SingleFlight(p, q)

\* C1 (amended): the same, provided no construction of X fails and X is not
\* unloaded or evicted while the calls are in progress.
C1_SingleFlight ==
    available =>
        \A p, q \in Callers :
            Concurrent(p, q) /\ ~hist[p].disturbed /\ ~hist[q].disturbed
                => SingleFlight(p, q)

C1_Witness ==
    \E p, q \in Callers :
        /\ p # q /\ Concurrent(p, q) /\ Done(p) /\ Done(q)
        /\ ~hist[p].disturbed /\ ~hist[q].disturbed
        /\ hist[p].built /\ ~hist[q].built
        /\ result[p] # None /\ result[q] = result[p]

\* C2: never two load_model calls for the same identifier inside the
\* construction step at once, whatever unload_model and
\* cleanup_unused_models do in between.
C2_OneConstructionPerName ==
    \A p, q \in Callers :
        p # q /\ pc[p] = "constructing" /\ pc[q] = "constructing"
            => call[p].name # call[q].name

C2_Witness ==
    \E p, q \in Callers :
        /\ pc[p] = "constructing" /\ pc[q] = "waiting"
        /\ call[p].name = call[q].name
        /\ lastOp.op = "unload" /\ lastOp.name = call[p].name

\* C3: an identifier is in the cache only with a handle whose construction
\* has completed, never while its construction is running, and every handle
\* a call returned is a completed one.
C3_PresentOnlyWhenBuilt ==
    /\ \A x \in DOMAIN models :
          /\ models[x] \in DOMAIN engines
          /\ ~\E p \in Callers : pc[p] = "constructing" /\ call[p].name = x
    /\ \A p \in Callers : Done(p) /\ result[p] # None => result[p] \in DOMAIN engines

C3_Witness ==
    \E p, q \in Callers :
        /\ Done(p) /\ hist[p].built /\ p \in hist[q].peers
        /\ call[p].name \in DOMAIN models /\ models[call[p].name] = result[p]
        /\ Done(q) /\ result[q] = result[p]

\* a load_model call returns None although the backend is available
FailedReturn(p) ==
    available /\ pc[p] # "done" /\ pc'[p] = "done" /\ result'[p] = None

\* C4: when a construction fails, at the return of load_model X is in none
\* of the three maps and X's lock is free, so that the next call (a queued
\* one first) builds again.
C4_FailureLeavesNothing ==
    [][\A p \in Callers :
          FailedReturn(p) =>
              LET x == call'[p].name IN
              /\ x \notin DOMAIN models'
              /\ x \notin DOMAIN model_configs'
              /\ x \notin DOMAIN last_used'
              /\ ~loading_locks'[LockKey(x)].locked
              /\ \A q \in Callers :
                    pc'[q] = "waiting" /\ call'[q].name = x
                        => \E r \in Callers : IsWoken(loading_locks'[LockKey(x)], r)]_vars

C4_Witness ==
    \E p, q \in Callers :
        /\ available /\ Done(p) /\ hist[p].built /\ result[p] = None
        /\ call[q].name = call[p].name /\ p \notin hist[q].peers
        /\ hist[q].built /\ Done(q) /\ result[q] # None

\* C5: a load of X in its construction step never holds up a call for
\* another identifier Y: such a call can start, and if it is suspended then
\* a call for Y, not the load of X, is the one that will let it go on.
C5_OtherIdentifierNotBlocked ==
    \A p, q \in Callers :
        (p # q /\ pc[p] = "constructing") =>
            /\ pc[q] = "idle" =>
                  \A y \in Names \ {call[p].name} :
                      ENABLED LoadCall(q, y, EmptyKwargs)
            /\ (pc[q] = "constructing" /\ call[q].name # call[p].name) =>
                  ENABLED LoadFinish(q, "ok")
            /\ (pc[q] = "waiting" /\ call[q].name # call[p].name) =>
                  \E r \in Callers \ {p} :
                      /\ call[r].name = call[q].name
                      /\ \/ pc[r] = "constructing"
                         \/ pc[r] = "waiting"
                            /\ IsWoken(loading_locks[LockKey(call[r].name)], r)

C5_Witness ==
    \E p, q \in Callers :
        /\ pc[p] = "constructing"
        /\ Done(q) /\ call[q].name # call[p].name
        /\ hist[q].during /\ hist[q].built /\ result[q] # None

\* C6 (as stated, vLLM): while a load of X is in its construction step, a
\* load_model call for another identifier can start and make progress.
C6_Claim ==
    \A p, q \in Callers :
        (pc[p] = "constructing" /\ pc[q] = "idle") =>
            \A y \in Names \ {call[p].name} : ENABLED VLoadCall(q, y, EmptyKwargs)

ManagerMaps == <<models, model_configs, last_used, loading_locks, engines, closed>>

\* C7: unload_model(X) on an X that is not cached returns False and changes
\* nothing; on a cached X it returns True and removes X, and no handle that
\* was removed is ever in the cache again (a reload builds anew).
C7_Unload ==
    [][/\ lastOp'.op = "unload" =>
            LET x == lastOp'.name IN
            IF x \in DOMAIN models
            THEN lastOp'.ret /\ x \notin DOMAIN models' /\ models[x] \in closed'
            ELSE ~lastOp'.ret /\ UNCHANGED <<ManagerMaps, pc, call, result, now>>
       /\ \A x \in DOMAIN models' : models'[x] \notin closed']_vars

C7_Witness ==
    \E p, q \in Callers :
        /\ Done(p) /\ Done(q) /\ call[p].name = call[q].name
        /\ result[p] \in closed
        /\ hist[q].built /\ result[q] # None /\ result[q] # result[p]
        /\ call[q].name \in DOMAIN models /\ models[call[q].name] = result[q]

\* C8: when close raises in unload_model(X) on a cached X, X is still
\* removed from the three maps, True is returned and nothing propagates;
\* nor does an eviction let such an error out.
C8_CloseErrorSwallowed ==
    [][/\ (lastOp'.op = "unload" /\ lastOp'.raised) =>
             LET x == lastOp'.name IN
             /\ lastOp'.ret /\ ~lastOp'.error
             /\ x \notin DOMAIN models'
             /\ x \notin DOMAIN model_configs'
             /\ x \notin DOMAIN last_used'
       /\ lastOp'.op = "cleanup" => ~lastOp'.error]_vars

C8_Witness ==
    /\ lastOp.op = "unload" /\ lastOp.raised /\ lastOp.ret
    /\ lastOp.name \notin DOMAIN models
    /\ \E p \in Callers : call[p].name = lastOp.name /\ result[p] \in closed

\* C9: cleanup_unused_models(d) removes exactly the entries with
\* now - last_used > d and leaves every other entry as it was; an entry
\* idle for exactly d stays.
C9_CleanupExact ==
    [][lastOp'.op = "cleanup" =>
          LET d == lastOp'.d
              gone == {x \in DOMAIN models : now - last_used[x] > d}
          IN
          /\ DOMAIN models' = DOMAIN models \ gone
          /\ DOMAIN model_configs' = DOMAIN models'
          /\ DOMAIN last_used' = DOMAIN models'
          /\ \A x \in DOMAIN models' :
                /\ models'[x] = models[x]
                /\ model_configs'[x] = model_configs[x]
                /\ last_used'[x] = last_used[x]]_vars

C9_Witness ==
    /\ lastOp.op = "cleanup" /\ lastOp.removed # {}
    /\ \E x \in DOMAIN models : now - last_used[x] = lastOp.d

\* C10: each field of the LMDeploy engine configuration is, on its own, the
\* per-call override if one is given, else the registry value if the
\* registry has one, else the global default.
C10_ConfigPriority ==
    resolved.name # "" =>
        LET kw == resolved.kwargs
            reg == get_model_config(resolved.name)
            e == resolved.engine
        IN
        /\ e.session_len =
              IF "max_model_len" \in DOMAIN kw THEN kw.max_model_len
              ELSE IF "max_model_len" \in DOMAIN reg THEN reg.max_model_len
              ELSE config.max_model_len
        /\ e.tp =
              IF "tensor_parallel_size" \in DOMAIN kw THEN kw.tensor_parallel_size
              ELSE IF "tensor_parallel_size" \in DOMAIN reg THEN reg.tensor_parallel_size
              ELSE config.tensor_parallel_size
        /\ e.max_batch_size =
              IF "max_num_seqs" \in DOMAIN kw THEN kw.max_num_seqs
              ELSE config.max_num_seqs
        /\ e.cache_max_entry_count =
              IF "cache_max_entry_count" \in DOMAIN kw THEN kw.cache_max_entry_count
              ELSE CacheMaxEntryDefault

C10_Witness ==
    /\ resolved.name = Mistral
    /\ DOMAIN resolved.kwargs = {"max_model_len"}
    /\ config # DefaultConfig
    /\ resolved.engine.session_len = 512
    /\ resolved.engine.tp = 1
    /\ resolved.engine.max_batch_size = config.max_num_seqs

\* C11: the vLLM load_model, given a per-call override for max_model_len,
\* max_num_seqs, tensor_parallel_size or gpu_memory_utilization, builds the
\* engine arguments with the override as that field's value, and every field
\* without an override from the registry, else the global default.
C11_Claim ==
    resolved.name # "" =>
        LET e == resolved.engine
            kw == resolved.kwargs
            reg == get_model_config(resolved.name)
        IN  /\ "error" \notin DOMAIN e
            /\ e.max_model_len =
                   IF "max_model_len" \in DOMAIN kw THEN kw.max_model_len
                   ELSE IF "max_model_len" \in DOMAIN reg THEN reg.max_model_len
                   ELSE config.max_model_len
            /\ e.max_num_seqs =
                   IF "max_num_seqs" \in DOMAIN kw THEN kw.max_num_seqs
                   ELSE config.max_num_seqs
            /\ e.tensor_parallel_size =
                   IF "tensor_parallel_size" \in DOMAIN kw
                   THEN kw.tensor_parallel_size
                   ELSE IF "tensor_parallel_size" \in DOMAIN reg
                   THEN reg.tensor_parallel_size
                   ELSE config.tensor_parallel_size
            /\ e.gpu_memory_utilization =
                   IF "gpu_memory_utilization" \in DOMAIN kw
                   THEN kw.gpu_memory_utilization
                   ELSE config.gpu_memory_utilization

\* C12: however load_model interleaves with unload_model and eviction, a
\* handle load_model returns is, at the moment of the return, the cache's
\* entry for the identifier and has not been relinquished.
C12_ReturnedHandleCached ==
    [][\A p \in Callers :
          (pc[p] # "done" /\ pc'[p] = "done" /\ result'[p] # None) =>
              /\ call'[p].name \in DOMAIN models'
              /\ models'[call'[p].name] = result'[p]
              /\ result'[p] \notin closed']_vars

C12_Witness ==
    \E q \in Callers :
        /\ Done(q) /\ hist[q].disturbed /\ hist[q].built
        /\ result[q] # None /\ result[q] \notin closed /\ closed # {}
        /\ call[q].name \in DOMAIN models /\ models[call[q].name] = result[q]

\* C13: a load request tells a permanently unavailable backend apart from a
\* transient load failure: the first is answered 503, the second 500.
C13_Claim ==
    \A p \in Callers :
        (gw[p].kind = "load" /\ gw[p].stage = "responded" /\ result[p] = None) =>
            gw[p].status = IF available THEN HTTP_500 ELSE HTTP_503

\* C14: an unload request for an identifier that is not loaded is answered
\* 404, and with success exactly when the identifier was loaded.
C14_Claim ==
    [][admin'.endpoint = "unload" /\ lastOp'.op = "unload" =>
           admin'.status = IF admin'.name \in DOMAIN models THEN HTTP_OK
                           ELSE HTTP_404]_vars

\* C15: with the backend unavailable (the manager's flag is off, and with
\* it possibly the server's) every generate and chat request, streaming or
\* not, for any identifier, is answered 503 with no body, never with a
\* success or a generic server error.
C15_Claim ==
    \A p \in Callers :
        (~available /\ gw[p].kind \in GenerationEndpoints) =>
            /\ gw[p].stage = "responded"
            /\ gw[p].status = HTTP_503
            /\ gw[p].out = <<>>

\* C16: once the producer of a streaming generation has finished or raised,
\* the consumer takes the messages left in the queue, observes the terminal
\* one and the response ends, unless the consumer was closed before; it
\* never waits on the queue forever.
C16_StreamTerminates ==
    \A p \in Callers :
        (stream.owner = p /\ stream.thread = "ended")
            ~> \/ gw[p].stage = "responded" /\ stream.queue = <<>>
               \/ gw[p].stage = "abandoned"

C16_Witness ==
    \E p \in Callers :
        /\ stream.owner = p /\ stream.thread = "ended" /\ stream.raised
        /\ stream.produced = MaxFrags
        /\ gw[p].stage = "responded" /\ stream.queue = <<>>

\* an object that reports an error: final, with the error in its text
ReportsError(obj) == obj.done /\ obj.text # NoText

\* C17: when the adapter's streaming producer raises after k fragments, the
\* response consists of those k fragments followed by a final object that
\* reports the error, unlike the final object of a normal completion.
C17_Claim ==
    \A p \in Callers :
        (stream.owner = p /\ stream.raised /\ gw[p].stage = "responded") =>
            LET out == gw[p].out IN
            /\ Len(out) = stream.produced + 1
            /\ \A i \in 1..stream.produced : ~out[i].done
            /\ ReportsError(out[Len(out)])

\* C18: a streaming request whose acquisition failed gets one final
\* done:true object and nothing else; no done:false object is sent and the
\* adapter's streaming entry point is not invoked.
C18_AcquisitionFailure ==
    \A p \in Callers :
        (gw[p].streaming /\ Done(p) /\ result[p] = None) =>
            /\ gw[p].stage = "responded"
            /\ gw[p].out = <<EmptyFinal>>
            /\ stream = NoStream

C18_Witness ==
    \E p \in Callers :
        /\ gw[p].streaming /\ Done(p) /\ result[p] = None /\ hist[p].built
        /\ gw[p].out = <<EmptyFinal>>

\* C19: a streamed response is, at every moment, a run of done:false objects
\* with at most one done:true object, which is the last; a response that has
\* ended (normally, after a failed acquisition, or after an exception while
\* streaming) has exactly one.
C19_Framing ==
    \A p \in Callers :
        (gw[p].streaming /\ gw[p].status = HTTP_OK) =>
            LET out == gw[p].out IN
            /\ \A i \in 1..Len(out) : out[i].done => i = Len(out)
            /\ gw[p].stage = "responded" <=>
                   (out # <<>> /\ out[Len(out)].done)

C19_Witness ==
    \E p \in Callers :
        /\ gw[p].streaming /\ gw[p].stage = "responded"
        /\ Len(gw[p].out) = MaxFrags + 1
        /\ gw[p].out[Len(gw[p].out)].done

\* the concatenation of the texts of the first n objects
RECURSIVE SentText(_, _)
SentText(out, n) ==
    IF n = 0 THEN NoText ELSE SentText(out, n - 1) \o out[n].text

\* C20: on normal completion of a stream the final object's eval_count is
\* the whitespace-separated word count of the concatenation, in emission
\* order, of the fragments sent as done:false objects.
C20_EvalCount ==
    \A p \in Callers :
        (stream.owner = p /\ ~stream.raised /\ gw[p].stage = "responded") =>
            LET out == gw[p].out IN
            out[Len(out)].eval_count =
                Some(WordCount(SentText(out, Len(out) - 1)))

C20_Witness ==
    \E p \in Callers :
        /\ stream.owner = p /\ ~stream.raised /\ gw[p].stage = "responded"
        /\ Len(gw[p].out) = 3
        /\ gw[p].out[1].text = Hel /\ gw[p].out[2].text = lo
        /\ gw[p].out[3].eval_count = Some(1)

\* C21: a step of a stream that has started (a pull, the consumer's
\* abandonment and cleanup, the producer's puts) leaves the cache, the config
\* map, the timestamp map and the lock map as they are: an abandoned stream
\* leaves the manager as a stream consumed to the end does.
C21_AbandonFrame ==
    [][((stream.owner # NoCaller /\ stream' # stream)
          \/ \E p \in Callers : /\ gw[p].stage \in {"streaming", "closing"}
                                /\ gw'[p] # gw[p])
         => UNCHANGED <<models, model_configs, last_used, loading_locks>>]_vars

C21_Witness ==
    \E p \in Callers :
        /\ gw[p].stage = "abandoned" /\ Len(gw[p].out) >= 1
        /\ stream.thread = "ended"
        /\ call[p].name \in DOMAIN models /\ models[call[p].name] = result[p]

\* C22: after the consumer has abandoned a stream its cleanup can always
\* complete, whether or not the producer has finished, and the producer is
\* never held up by the missing consumer: its next put and its terminal put
\* are always possible.
C22_NoDeadlock ==
    \A p \in Callers :
        /\ gw[p].stage = "closing" => ENABLED CleanupDone(p)
        /\ (gw[p].stage \in {"closing", "abandoned"} /\ stream.thread = "running") =>
               /\ ENABLED ProducerEnds(FALSE)
               /\ stream.produced < MaxFrags =>
                      \A frag \in Fragments : ENABLED Produce(frag)

C22_Witness ==
    \E p \in Callers :
        /\ gw[p].stage = "abandoned" /\ stream.thread = "running"
        /\ Len(stream.queue) = MaxFrags

\* C23: the step that ends a single-shot generation on a loaded model
\* changes nothing in the manager: when the adapter failed the request is
\* answered as a failure with no body, and the model is still cached under
\* the handle the generation ran on, beside the same identifiers.
C23_GenerationFailureFrame ==
    [][\A p \in Callers :
          (gw[p].stage = "generating" /\ gw'[p].stage = "responded") =>
              /\ UNCHANGED <<models, model_configs, last_used, loading_locks,
                             engines, closed>>
              /\ gw'[p].status # HTTP_OK =>
                     /\ gw'[p].status = HTTP_500 /\ gw'[p].out = <<>>
                     /\ call[p].name \in DOMAIN models'
                     /\ models'[call[p].name] = result[p]]_vars

C23_Witness ==
    \E p \in Callers :
        /\ gw[p].kind = "generate" /\ ~gw[p].streaming
        /\ gw[p].stage = "responded" /\ gw[p].status = HTTP_500
        /\ Done(p) /\ result[p] # None
        /\ call[p].name \in DOMAIN models /\ models[call[p].name] = result[p]

\* C27: the hand-off channel is bounded: the messages put and not yet taken
\* never number more than a capacity below what the adapter can produce
\* (here: the longest output, MaxFrags fragments).
C27_Claim == Len(stream.queue) <= MaxFrags

\* the texts of the fragment objects sent so far, in emission order
RECURSIVE Yielded(_)
Yielded(out) ==
    IF out = <<>> THEN <<>>
    ELSE IF Head(out).done THEN Yielded(Tail(out))
         ELSE <<Head(out).text>> \o Yielded(Tail(out))

\* the fragments waiting in the channel, oldest first
RECURSIVE Queued(_)
Queued(q) ==
    IF q = <<>> THEN <<>>
    ELSE IF Head(q).kind = "chunk" THEN <<Head(q).value>> \o Queued(Tail(q))
         ELSE Queued(Tail(q))

IsPrefix(s, t) == Len(s) <= Len(t) /\ SubSeq(t, 1, Len(s)) = s

\* C30: the fragments yielded to the consumer, followed by those still in
\* the channel, are the fragments the adapter produced, in order; once the
\* stream has ended normally the yielded fragments are exactly the produced
\* ones; and every step only appends to what the consumer has seen.
C30_FragmentsInOrder ==
    [][\A p \in Callers :
          stream'.owner = p =>
              /\ Yielded(gw'[p].out) \o Queued(stream'.queue) = stream'.made
              /\ gw'[p].stage = "responded" => Yielded(gw'[p].out) = stream'.made
              /\ IsPrefix(gw[p].out, gw'[p].out)
              /\ IsPrefix(gw[p].full_response, gw'[p].full_response)]_vars

C30_Witness ==
    \E p \in Callers :
        /\ stream.owner = p /\ gw[p].stage = "responded"
        /\ Len(stream.made) >= 2 /\ stream.made[1] # stream.made[2]
        /\ Yielded(gw[p].out) = stream.made

\* C25: a call load_model(x) made while x is cached returns at once with the
\* cached handle, constructs nothing, sets x's last-used time to the current
\* time and leaves every other entry's handle, configuration and time, and
\* the lock map, as they were.
C25_CacheHit ==
    [][\A p \in Callers :
          (pc[p] = "idle" /\ pc'[p] # "idle" /\ call'[p].name \in DOMAIN models) =>
              LET x == call'[p].name IN
              /\ pc'[p] = "done"
              /\ result'[p] = models[x]
              /\ ~hist'[p].built
              /\ UNCHANGED <<models, model_configs, engines, closed, loading_locks>>
              /\ DOMAIN last_used' = DOMAIN last_used
              /\ last_used'[x] = now
              /\ \A y \in DOMAIN last_used \ {x} : last_used'[y] = last_used[y]]_vars

C25_Witness ==
    \E p \in Callers :
        /\ Done(p) /\ hist[p].cached /\ ~hist[p].built
        /\ call[p].name \in DOMAIN models /\ result[p] = models[call[p].name]
        /\ last_used[call[p].name] = now /\ now > 0
        /\ \E q \in Callers \ {p} : hist[q].built /\ result[q] = result[p]

\* x's lock is free: not held, nobody queued on it
LockIdle(x) ==
    LockKey(x) \in DOMAIN loading_locks =>
        /\ ~loading_locks[LockKey(x)].locked
        /\ loading_locks[LockKey(x)].waiters = <<>>

\* C26: the lock map only grows; a lock in the map is never taken out or
\* replaced (its queue changes only by one caller joining at the back or the
\* head leaving, and it stays held while its holder is still constructing);
\* and whenever no load_model call for x is in progress, x's lock is not held.
C26_LocksOnlyGrow ==
    [][/\ DOMAIN loading_locks \subseteq DOMAIN loading_locks'
       /\ \A k \in DOMAIN loading_locks :
             LET old == loading_locks[k]
                 new == loading_locks'[k] IN
             /\ \/ new.waiters = old.waiters
                \/ \E p \in Callers : new.waiters = Append(old.waiters, p)
                \/ old.waiters # <<>> /\ new.waiters = Tail(old.waiters)
             /\ (\E p \in Callers : /\ pc[p] = "constructing"
                                    /\ pc'[p] = "constructing"
                                    /\ LockKey(call[p].name) = k)
                   => old.locked /\ new.locked
       /\ \A x \in Names : (Affected(x) = {})' => LockIdle(x)']_vars

C26_Witness ==
    \E x \in Names :
        /\ LockKey(x) \in DOMAIN loading_locks /\ LockIdle(x)
        /\ Affected(x) = {} /\ x \notin DOMAIN models
        /\ \E p \in Callers : /\ Done(p) /\ call[p].name = x
                              /\ hist[p].built /\ result[p] # None

\* the label a role is written with
RoleLabel == [system |-> "System: ", user |-> "User: ", assistant |-> "Assistant: "]

\* C28: for a list of n chat messages whose roles are system, user or
\* assistant, the prompt is, message by message and in order, the role's
\* label, the content and a newline (the newline after the last message
\* being the one that precedes the closing label), and then "Assistant: ";
\* for the empty list it is a newline and "Assistant: ".
C28_PromptFormat ==
    LET msgs == chat.messages
        n == Len(msgs)
        prompt == chat.prompt IN
    (chat # NoChat /\ \A i \in 1..n : msgs[i].role \in DOMAIN RoleLabel) =>
        IF n = 0 THEN prompt = <<Newline, "Assistant: ">>
        ELSE /\ Len(prompt) = 3 * n + 1
             /\ \A i \in 1..n :
                   /\ prompt[3 * i - 2] = RoleLabel[msgs[i].role]
                   /\ prompt[3 * i - 1] = msgs[i].content
                   /\ prompt[3 * i] = Newline
             /\ prompt[3 * n + 1] = "Assistant: "

C28_Witness ==
    /\ chat.messages = <<[role |-> "system", content |-> "be terse"],
                         [role |-> "user", content |-> "hi"]>>
    /\ chat.prompt = <<"System: ", "be terse", Newline, "User: ", "hi", Newline,
                       "Assistant: ">>

\* C24: no exception raised by the adapter leaves a manager operation: an
\* adapter error during load, unload, generation, or the iteration of a
\* stream is caught in the manager and never reaches the gateway.
C24_Claim == ~stream.escaped

\* C29: once the shutdown handler has run the cache is empty and stays
\* empty: every handle that was loaded has been released, no entry remains
\* in any of the three maps and none appears afterwards, not even for a load
\* that was in flight when the shutdown began.
C29_EmptyAfterShutdown ==
    phase.life = "stopped" =>
        /\ DOMAIN models = {}
        /\ DOMAIN model_configs = {}
        /\ DOMAIN last_used = {}
        /\ DOMAIN engines \subseteq closed

\* the handler has run after a load that was in flight when the shutdown
\* began, and which succeeded; its handle has been released
C29_Witness ==
    /\ phase.life = "stopped"
    /\ \E p \in phase.inflight :
           /\ hist[p].built /\ result[p] # None /\ result[p] \in closed

\* get_model_info(model_name): the entry's configuration and last-used time
\* when model_name is a key of _model_configs, else None
get_model_info(model_name) ==
    IF model_name \in DOMAIN model_configs
    THEN Some([name |-> model_name, config |-> model_configs[model_name],
               last_used |-> last_used[model_name], loaded |-> TRUE])
    ELSE Absent

\* C31: in every reachable state the cache, the configuration map and the
\* last-used map have the same keys; no unload or cleanup has failed on a
\* missing key; and get_model_info reports only identifiers that are loaded.
C31_MapsAgree ==
    /\ DOMAIN models = DOMAIN model_configs
    /\ DOMAIN model_configs = DOMAIN last_used
    /\ ~lastOp.error
    /\ \A x \in Names : get_model_info(x) # Absent => x \in DOMAIN models

C31_Witness ==
    /\ lastOp.op = "unload" /\ lastOp.ret /\ lastOp.removed # {}
    /\ DOMAIN models # {}
    /\ \E x \in DOMAIN models : get_model_info(x) # Absent
    /\ get_model_info(lastOp.name) = Absent

\* the generation of caller p is running on the handle its load_model call
\* returned: the executor call of generate_text, or the stream's consumer
\* or producer thread
GenerationRunning(p) ==
    \/ gw[p].stage = "generating"
    \/ stream.owner = p /\ (gw[p].stage = "streaming" \/ stream.thread = "running")

\* C32: while a generation is running, the handle it obtained has not been
\* relinquished and is still the cache's entry for its identifier: neither
\* unload_model nor cleanup_unused_models closes or removes it meanwhile.
C32_Claim ==
    \A p \in Callers :
        GenerationRunning(p) =>
            /\ result[p] \notin closed
            /\ call[p].name \in DOMAIN models
            /\ models[call[p].name] = result[p]

IsTerminal(msg) == msg.kind \in {"done", "error"}

\* C33: what the producer has put on the channel is, while it runs, chunk
\* messages only, and, once it has ended, chunk messages followed by exactly
\* one terminal message (done or error); nothing is put after the terminal
\* message.
C33_ChunksThenTerminal ==
    [][LET put == stream'.put
           n == Len(put) IN
       /\ \A i \in 1..(n - 1) : put[i].kind = "chunk"
       /\ stream'.thread = "running" => \A i \in 1..n : put[i].kind = "chunk"
       /\ stream'.thread = "ended" => n >= 1 /\ IsTerminal(put[n])
       /\ stream.thread = "ended" => stream'.put = stream.put]_vars

C33_Witness ==
    /\ stream.thread = "ended" /\ stream.raised
    /\ Len(stream.put) = MaxFrags + 1
    /\ IsTerminal(stream.put[Len(stream.put)])
    /\ \E p \in Callers : gw[p].stage = "responded" /\ stream.owner = p

\* the calls for x that ran the construction step and have returned
Builders(x) == {q \in Callers : Done(q) /\ call[q].name = x /\ hist[q].built}

\* C34 as stated: a call load_model(x) that was in progress when a
\* construction of x failed returns failure after an attempt of its own.
C34_Claim ==
    \A p \in Callers :
        (Done(p) /\ hist[p].disturbed) => result[p] = None /\ hist[p].built

\* C34: when every construction of x fails, every call load_model(x)
\* returns failure and has made its own construction attempt (a call that
\* waited does not take over the failure of the call it waited for), and
\* the attempts come one at a time: never two constructions of x at once.
C34_EachWaiterRetries ==
    \A x \in Names :
        /\ Cardinality({q \in Callers : pc[q] = "constructing" /\ call[q].name = x}) <= 1
        /\ (available /\ \A q \in Builders(x) : result[q] = None) =>
               \A p \in Callers :
                   (Done(p) /\ call[p].name = x) =>
                       result[p] = None /\ p \in Builders(x)

C34_Witness ==
    \E x \in Names : \E p, q \in Callers :
        /\ p # q /\ Builders(x) = {p, q}
        /\ result[p] = None /\ result[q] = None
        /\ q \in hist[p].peers
        /\ hist[p].disturbed

\* the construction of x is in progress, under x's lock
Constructing(x) == {q \in Callers : pc[q] = "constructing" /\ call[q].name = x}

\* C35: unload_model(x) called while a load of x is in flight (its
\* construction is running) returns false and changes nothing: the cache,
\* the maps, the locks and the loading call itself are as before; and when
\* the construction then succeeds, x is in the cache under the new handle.
C35_UnloadDuringLoad ==
    [][/\ (lastOp'.op = "unload" /\ Constructing(lastOp'.name) # {}) =>
              /\ ~lastOp'.ret /\ ~lastOp'.error /\ lastOp'.removed = {}
              /\ UNCHANGED <<models, model_configs, last_used, loading_locks,
                             engines, closed, pc, call, result, hist>>
       /\ \A p \in Callers :
              (pc[p] = "constructing" /\ pc'[p] = "done" /\ result'[p] # None) =>
                  /\ call[p].name \in DOMAIN models'
                  /\ models'[call[p].name] = result'[p]]_vars

C35_Witness ==
    /\ lastOp.op = "unload" /\ ~lastOp.ret
    /\ Constructing(lastOp.name) # {}
    /\ lastOp.name \notin DOMAIN models
    /\ DOMAIN models # {}

\* C36: overrides take effect only at construction.  A call load_model(x,
\* overrides) that finds x cached (at its start or after waiting for the
\* lock) returns the cached handle, whatever its overrides, and constructs
\* nothing: the handle keeps the configuration it was built with, and no
\* construction starts for an identifier that is cached.  The configuration
\* recorded for an entry is the registry's, not the effective one.
C36_OverridesOnlyAtConstruction ==
    [][/\ \A p \in Callers :
             /\ (pc[p] # "done" /\ pc'[p] = "done" /\ ~hist'[p].built
                   /\ result'[p] # None) =>
                    /\ call'[p].name \in DOMAIN models
                    /\ result'[p] = models[call'[p].name]
                    /\ UNCHANGED <<models, model_configs, engines>>
             /\ (pc[p] # "constructing" /\ pc'[p] = "constructing") =>
                    call'[p].name \notin DOMAIN models
       /\ \A h \in DOMAIN engines : h \in DOMAIN engines' /\ engines'[h] = engines[h]
       /\ \A x \in DOMAIN models' : model_configs'[x] = get_model_config(x)]_vars

C36_Witness ==
    \E p \in Callers :
        /\ Done(p) /\ hist[p].cached /\ ~hist[p].built
        /\ hist[p].overrides = [max_model_len |-> 512]
        /\ call[p].name \in DOMAIN models /\ result[p] = models[call[p].name]
        /\ engines[result[p]].session_len = get_model_config(call[p].name).max_model_len
        /\ \E q \in Callers : hist[q].built /\ hist[q].overrides = EmptyKwargs
                              /\ result[q] = result[p]

\* C37: for an identifier the registry does not know, loaded without
\* overrides, the engine's context length and parallelism degree are the
\* globally configured ones, config.max_model_len and
\* config.tensor_parallel_size.
C37_Claim ==
    (resolved.name = Custom /\ resolved.kwargs = EmptyKwargs) =>
        /\ resolved.engine.session_len = config.max_model_len
        /\ resolved.engine.tp = config.tensor_parallel_size

====
